---- MODULE Spec2Model ----
(***************************************************************************)
(* Connection manager of the P2P node (src/src/server.rs).                 *)
(*                                                                         *)
(* Every P2P instance (a "node") owns the five slot arrays, the inbound    *)
(* request map, the connection-attempt map and the running flag.  Threads  *)
(* are the accept loop, one handle_incoming worker per accepted socket,    *)
(* the caller of create_session with the listen_to_server worker it        *)
(* spawns, and the callers of send / get_request / close_connection.  A    *)
(* thread takes one step per critical section or socket operation.         *)
(*                                                                         *)
(* A TCP connection is a pair of frame sequences.  Its two ends are run    *)
(* either by a node's code or by the environment (a remote program that    *)
(* may send anything and close at any time).                               *)
(***************************************************************************)
EXTENDS Integers, Sequences, FiniteSets, TLC

\* ---------------------------------------------------------------- bounds
MaxClients == 1      \* max_clients handed to P2P::new
MaxConn == 2         \* connection attempts (inbound and outbound) in a run
MaxMsg == 2          \* application messages written on one connection
MsgConn == 1         \* connections of the peer in the polling scenario

\* ------------------------------------------------------- program constants
DEBOUNCE_SECS == 5   \* Duration::from_secs(5) of the connection-attempt window
KEY_TIMEOUT_SECS == 5 \* Duration::from_secs(5) of read_with_timeout

\* ------------------------------------------------------------- the world
Node == {"A", "B"}
Env == "env"
HostOf(n) == IF n = "A" THEN "ha" ELSE "hb"
PortOf(n) == IF n = "A" THEN 1 ELSE 2
Addr == {"ha", "hb", "hx", "bl"}
NoAddr == ""
NoNode == "none"
NoPort == 0
\* max_clients handed to P2P::new by node n: B runs with one slot more than A.
max_clients(n) == IF n = "B" THEN MaxClients + 1 ELSE MaxClients
\* The slot indices of node n, and those of node A.
SlotsOf(n) == 1..max_clients(n)
Slots == SlotsOf("A")
ConnIds == 1..MaxConn
Msgs == 1..MaxMsg
None == 0

\* blacklist.txt, read once by P2P::new; read_blacklist drops empty lines.
blacklist == {"bl"}

\* The node listening on (address, port), or None.
Listener(a, p) ==
  IF \E n \in Node : HostOf(n) = a /\ PortOf(n) = p
  THEN CHOOSE n \in Node : HostOf(n) = a /\ PortOf(n) = p
  ELSE NoNode

\* Remote programs the environment runs listen on every port of hx.
EnvListens(a, p) == a = "hx"

\* ------------------------------------------------------------------ keys
\* RsaPrivateKey::new draws a fresh key pair; a pair is named by the
\* connection and the side that generated it.  A public and a private key
\* match when they carry the same name.
KeyI(c) == 2 * c - 1
KeyR(c) == 2 * c

Junk == [t |-> "junk", k |-> 0, m |-> 0]
\* An encoding that writes the same bytes for every key.
to_pkcs1_der_fixed(k) == [t |-> "der", k |-> 1, m |-> 0]
\* to_pkcs1_der
to_pkcs1_der(k) == [t |-> "der", k |-> k, m |-> 0]
\* A parser that takes any bytes for a key: bytes that are no key encoding
\* give a key nobody generated.
from_pkcs1_der_lenient(bytes) == IF bytes.t = "der" THEN bytes.k ELSE 2 * MaxConn + 1
\* from_pkcs1_der: the key, or None for bytes that are no key encoding
from_pkcs1_der(bytes) == IF bytes.t = "der" THEN bytes.k ELSE None
\* RsaPublicKey::encrypt with Pkcs1v15Encrypt
encrypt(k, m) == [t |-> "ct", k |-> k, m |-> m]
\* RsaPrivateKey::decrypt: the plaintext, or None (an error) for a block
\* that was not encrypted to this key
decrypt(k, bytes) == IF bytes.t = "ct" /\ bytes.k = k THEN bytes.m ELSE None

\* One read call returns whatever bytes have arrived, up to the buffer size:
\* the first j frames in flight.  Two or more frames glued together are
\* neither a key encoding nor one ciphertext block.
ReadBytes(buf, j) == IF j = 1 THEN buf[1] ELSE Junk
Drop(buf, j) == SubSeq(buf, j + 1, Len(buf))

\* HashMap::new
EmptyMap == [x \in {} |-> 0]
\* HashMap::remove
MapRemove(f, a) == [x \in DOMAIN f \ {a} |-> f[x]]
\* HashMap::insert
MapInsert(f, a, v) == [x \in DOMAIN f \cup {a} |-> IF x = a THEN v ELSE f[x]]

VARIABLES
  running,              \* running: Arc<Mutex<bool>>
  clients_ip,           \* clients_ip[n][i]: address string, "" when empty
  socket_busy,          \* socket_busy[n][i]
  client_sockets,       \* client_sockets[n][i]: connection id, None when None
  keys,                 \* keys[n][i]: peer public key, None when None
  my_keys,              \* my_keys[n][i]: own private key, None when None
  incoming_requests,    \* incoming_requests[n]: address -> queue of plaintexts
  connection_attempts,  \* connection_attempts[n]: address -> seconds elapsed
  nconn,                \* connection attempts started so far
  conn,                 \* conn[c]: the TCP connection of attempt c
  cs,                   \* cs[c]: the create_session caller of attempt c
  lw,                   \* lw[c]: the listen_to_server worker of attempt c
  hi,                   \* hi[c]: the handle_incoming worker of attempt c
  cc,                   \* cc[n]: the caller of close_connection on node n
  sd,                   \* sd[n]: the caller of send on node n
  ks,                   \* ks[n]: the caller of kill_server on node n
  acc,                  \* acc[n]: the accept thread of node n
  mutex,                \* mutex[n]: who holds each Mutex of node n, and what
                        \* each of its threads has locked in its critical section
  rx,                   \* rx[c]: plaintexts the read worker of c queued (history)
  got,                  \* got[n][a]: plaintexts get_request(a) returned (history)
  ev                    \* the operation the last step performed and its result

pool == <<clients_ip, socket_busy, client_sockets, keys, my_keys>>
node_vars == <<running, clients_ip, socket_busy, client_sockets, keys, my_keys,
               incoming_requests, connection_attempts>>
thread_vars == <<nconn, conn, cs, lw, hi, cc, sd, ks, acc, mutex>>
hist == <<rx, got>>
vars == <<running, clients_ip, socket_busy, client_sockets, keys, my_keys,
          incoming_requests, connection_attempts, nconn, conn, cs, lw, hi,
          cc, sd, ks, acc, mutex, rx, got, ev>>

NoConn == [ini |-> NoNode, tgt |-> NoNode, src |-> NoAddr, addr |-> NoAddr,
           port |-> NoPort, up |-> FALSE, accepted |-> FALSE,
           iShut |-> FALSE, rShut |-> FALSE, toR |-> <<>>, toI |-> <<>>,
           sentI |-> 0, sentR |-> 0]
NoCs == [pc |-> "none", idx |-> 0, w |-> 0, skey |-> None, ret |-> "none"]
NoLw == [pc |-> "none", buf |-> Junk, k |-> 0]
NoHi == [pc |-> "none", idx |-> 0, w |-> 0, ckey |-> None, buf |-> Junk, k |-> 0]
NoCc == [pc |-> "idle", a |-> NoAddr, idx |-> 0, k |-> 0]
NoSd == [pc |-> "idle", a |-> NoAddr, m |-> 0, idx |-> 0, key |-> None]
\* live: the connections whose read worker was active at the call (history).
NoKs == [pc |-> "idle", clients |-> <<>>, a |-> NoAddr, idx |-> 0, k |-> 0, live |-> {}]

\* The threads whose locking is followed, one of each kind: the accept
\* thread, the handle_incoming worker, the create_session caller and the
\* listen_to_server worker of connection 1, the callers of close_connection,
\* send and kill_server, and the monitor thread of main.
Thread ==
  {<<"accept", 0>>, <<"cc", 0>>, <<"sd", 0>>, <<"ks", 0>>, <<"monitor", 0>>}
    \cup {<<w, 1>> : w \in {"hi", "lw", "cs"}}
NoThread == <<"none", 0>>
\* A thread outside every critical section: sec is the sequence of mutexes
\* its block locks, k the number of them it has locked.
NoSection == [sec |-> <<>>, k |-> 0]

Event(op, n, a, c, r) == [op |-> op, n |-> n, a |-> a, c |-> c, r |-> r, m |-> 0]
\* The result of an operation on message m, sent on or read from connection c.
MsgEvent(op, n, a, c, m, r) == [op |-> op, n |-> n, a |-> a, c |-> c, r |-> r, m |-> m]
\* A step that returns nothing to a caller.
Internal == Event("step", NoNode, NoAddr, 0, "")

\* P2P::new
Init ==
  /\ running = [n \in Node |-> TRUE]
  /\ clients_ip = [n \in Node |-> [i \in SlotsOf(n) |-> NoAddr]]
  /\ socket_busy = [n \in Node |-> [i \in SlotsOf(n) |-> FALSE]]
  /\ client_sockets = [n \in Node |-> [i \in SlotsOf(n) |-> None]]
  /\ keys = [n \in Node |-> [i \in SlotsOf(n) |-> None]]
  /\ my_keys = [n \in Node |-> [i \in SlotsOf(n) |-> None]]
  /\ incoming_requests = [n \in Node |-> EmptyMap]
  /\ connection_attempts = [n \in Node |-> EmptyMap]
  /\ nconn = 0
  /\ conn = [c \in ConnIds |-> NoConn]
  /\ cs = [c \in ConnIds |-> NoCs]
  /\ lw = [c \in ConnIds |-> NoLw]
  /\ hi = [c \in ConnIds |-> NoHi]
  /\ cc = [n \in Node |-> NoCc]
  /\ sd = [n \in Node |-> NoSd]
  /\ ks = [n \in Node |-> NoKs]
  /\ acc = [n \in Node |-> "loop"]
  /\ mutex = [n \in Node |-> [t \in Thread |-> NoSection]]
  /\ rx = [c \in ConnIds |-> <<>>]
  /\ got = [n \in Node |-> [a \in Addr \cup {NoAddr} |-> <<>>]]
  /\ ev = Event("new", NoNode, NoAddr, 0, "")

\* ---------------------------------------------------------------- sockets
\* A node's end of a connection stays open while some handle to it is alive
\* (the TcpStream a thread owns, or the clone stored in client_sockets) and
\* nobody called shutdown on it.
SlotHolds(n, c) == \E i \in SlotsOf(n) : client_sockets[n][i] = c
IHandle(c) ==
  \/ conn[c].ini = Env
  \/ cs[c].pc \in {"sendkey", "readkey", "save"}
  \/ lw[c].pc \notin {"none", "done"}
  \/ (conn[c].ini \in Node /\ SlotHolds(conn[c].ini, c))
RHandle(c) ==
  \/ conn[c].tgt = Env
  \/ ~conn[c].accepted
  \/ hi[c].pc \notin {"none", "done"}
  \/ (conn[c].tgt \in Node /\ SlotHolds(conn[c].tgt, c))
IOpen(c) == conn[c].up /\ ~conn[c].iShut /\ IHandle(c)
ROpen(c) == conn[c].up /\ ~conn[c].rShut /\ RHandle(c)

\* The side ("I" or "R") of connection c that node n holds.
SideOf(n, c) == IF conn[c].ini = n THEN "I" ELSE "R"
InBuf(c, side) == IF side = "I" THEN conn[c].toI ELSE conn[c].toR
LocalShut(c, side) == IF side = "I" THEN conn[c].iShut ELSE conn[c].rShut
PeerOpen(c, side) == IF side = "I" THEN ROpen(c) ELSE IOpen(c)
PeerIsEnv(c, side) == IF side = "I" THEN conn[c].tgt = Env ELSE conn[c].ini = Env

\* TcpStream::read can return data when bytes are in flight, and returns 0
\* (or an error) when this end was shut down or the peer closed and nothing
\* is left to read.  Otherwise it would block.
CanReadData(c, side) == InBuf(c, side) # <<>>
CanReadEof(c, side) ==
  \/ LocalShut(c, side)
  \/ (InBuf(c, side) = <<>> /\ ~PeerOpen(c, side))
\* The connection after a read of the first j frames at `side`.
AfterRead(c, side, j) ==
  IF side = "I" THEN [conn[c] EXCEPT !.toI = Drop(@, j)]
  ELSE [conn[c] EXCEPT !.toR = Drop(@, j)]
\* write_all succeeds on an end that is not shut down; bytes written to a
\* closed peer are lost, and such a write may also fail.
CanWriteOk(c, side) == conn[c].up /\ ~LocalShut(c, side)
CanWriteErr(c, side) == LocalShut(c, side) \/ ~PeerOpen(c, side)
\* The connection after a successful write of `frame` at `side`: the bytes
\* are in flight to the peer, and the writes that reached it are counted.
\* What the environment receives is not kept.
AfterWrite(c, side, frame) ==
  IF PeerIsEnv(c, side) \/ ~PeerOpen(c, side) THEN conn[c]
  ELSE IF side = "I" THEN [conn[c] EXCEPT !.toR = Append(@, frame), !.sentI = @ + 1]
  ELSE [conn[c] EXCEPT !.toI = Append(@, frame), !.sentR = @ + 1]
\* TcpStream::shutdown(Both) on node n's end of c.
ShutdownAt(n, c, cn) ==
  IF c = None THEN cn
  ELSE IF SideOf(n, c) = "I" THEN [cn EXCEPT ![c].iShut = TRUE]
  ELSE [cn EXCEPT ![c].rShut = TRUE]

\* ------------------------------------------------------------- accessors
\* check_address: clients_ip.contains(address)
check_address(n, a) == \E i \in SlotsOf(n) : clients_ip[n][i] = a

\* get_ind_by_address: the first index holding the address, or None
get_ind_by_address(n, a) ==
  IF \E i \in SlotsOf(n) : clients_ip[n][i] = a
  THEN CHOOSE i \in SlotsOf(n) : clients_ip[n][i] = a
                            /\ \A j \in SlotsOf(n) : clients_ip[n][j] = a => i <= j
  ELSE None

\* A check_request that only tests that the queue exists.
check_request_present(n, a) == a \in DOMAIN incoming_requests[n]
\* check_request: the queue exists and is not empty
check_request(n, a) ==
  a \in DOMAIN incoming_requests[n] /\ incoming_requests[n][a] # <<>>

\* get_connected_clients: the non-empty addresses
get_connected_clients(n) == {clients_ip[n][i] : i \in SlotsOf(n)} \ {NoAddr}

\* A blacklist test that lets every address through.
is_blacklisted_never(a) == FALSE
\* The blacklist test of accept_connections and create_session.
is_blacklisted(a) == a \in blacklist

\* A debounce test that never finds an attempt in progress.
attempt_in_progress_never(n, a) == FALSE
\* The debounce test both handshakes run under the attempts lock: a recorded
\* attempt for the address that is less than 5 seconds old.
attempt_in_progress(n, a) ==
  /\ a \in DOMAIN connection_attempts[n]
  /\ connection_attempts[n][a] < DEBOUNCE_SECS

\* ---------------------------------------------------------- create_session
\* The checks of create_session without the blacklist gate.
cs_precheck_no_blacklist(n, a, tp) ==
  IF a = HostOf(n) /\ tp = PortOf(n) THEN "false_self"
  ELSE IF check_address(n, a) THEN "true_already"
  ELSE "proceed"
\* The checks of create_session without the self-connection gate.
cs_precheck_no_self(n, a, tp) ==
  IF check_address(n, a) THEN "true_already"
  ELSE IF is_blacklisted(a) THEN "false_blacklist"
  ELSE "proceed"
\* The checks of create_session with the already-connected gate first.
cs_precheck_already_first(n, a, tp) ==
  IF check_address(n, a) THEN "true_already"
  ELSE IF a = HostOf(n) /\ tp = PortOf(n) THEN "false_self"
  ELSE IF is_blacklisted(a) THEN "false_blacklist"
  ELSE "proceed"
\* Lines 730-751: the checks before the attempt is recorded.
cs_precheck(n, a, tp) ==
  IF a = HostOf(n) /\ tp = PortOf(n) THEN "false_self"
  ELSE IF check_address(n, a) THEN "true_already"
  ELSE IF is_blacklisted(a) THEN "false_blacklist"
  ELSE "proceed"

CreateSession(n, a, p) ==
  LET tp == IF p = NoPort THEN PortOf(n) ELSE p
      r == cs_precheck(n, a, tp)
      c == nconn + 1
  IN IF r # "proceed"
     THEN /\ ev' = Event("create_session", n, a, 0, r)
          /\ UNCHANGED <<node_vars, thread_vars, hist>>
     ELSE /\ nconn < MaxConn
          /\ nconn' = c
          /\ conn' = [conn EXCEPT ![c] = [NoConn EXCEPT !.ini = n, !.src = HostOf(n),
                                                        !.addr = a, !.port = tp]]
          /\ cs' = [cs EXCEPT ![c].pc = "debounce"]
          /\ ev' = Internal
          /\ UNCHANGED <<node_vars, lw, hi, cc, sd, hist, ks, acc, mutex>>

\* Lines 753-762.
CsDebounce(c) ==
  LET n == conn[c].ini
      a == conn[c].addr
  IN /\ cs[c].pc = "debounce"
     /\ IF attempt_in_progress(n, a)
        THEN /\ cs' = [cs EXCEPT ![c].pc = "done", ![c].ret = "false"]
             /\ ev' = Event("create_session", n, a, c, "false_debounce")
             /\ UNCHANGED connection_attempts
        ELSE /\ connection_attempts' =
                  [connection_attempts EXCEPT ![n] = MapInsert(@, a, 0)]
             /\ cs' = [cs EXCEPT ![c].pc = "scan", ![c].idx = 1]
             /\ ev' = Internal
     /\ UNCHANGED <<running, pool, incoming_requests, nconn, conn, lw, hi, cc, sd, hist, ks, acc, mutex>>

\* Lines 765-768: one iteration of the scan for a slot that is not busy.
CsScan(c) ==
  LET n == conn[c].ini
      i == cs[c].idx
  IN /\ cs[c].pc = "scan"
     /\ cs' = IF ~socket_busy[n][i] THEN [cs EXCEPT ![c].pc = "connect"]
              ELSE IF i < max_clients(n) THEN [cs EXCEPT ![c].idx = i + 1]
              ELSE [cs EXCEPT ![c].pc = "allbusy"]
     /\ ev' = Internal
     /\ UNCHANGED <<node_vars, nconn, conn, lw, hi, cc, sd, hist, ks, acc, mutex>>

\* Lines 780-786: all sockets are busy.
CsAllBusy(c) ==
  LET n == conn[c].ini
      a == conn[c].addr
  IN /\ cs[c].pc = "allbusy"
     /\ connection_attempts' = [connection_attempts EXCEPT ![n] = MapRemove(@, a)]
     /\ cs' = [cs EXCEPT ![c].pc = "done", ![c].ret = "false"]
     /\ ev' = Event("create_session", n, a, c, "false_busy")
     /\ UNCHANGED <<running, pool, incoming_requests, nconn, conn, lw, hi, cc, sd, hist, ks, acc, mutex>>

\* Line 790: TcpStream::connect.
CsConnect(c) ==
  LET n == conn[c].ini
      a == conn[c].addr
      l == Listener(a, conn[c].port)
  IN /\ cs[c].pc = "connect"
     /\ \/ /\ l # NoNode \/ EnvListens(a, conn[c].port)
           /\ conn' = [conn EXCEPT ![c].up = TRUE,
                                   ![c].tgt = IF l # NoNode THEN l ELSE Env]
           /\ cs' = [cs EXCEPT ![c].pc = "sendkey"]
           /\ ev' = Internal
        \/ /\ l = NoNode
           /\ cs' = [cs EXCEPT ![c].pc = "reload1"]
           /\ ev' = Internal
           /\ UNCHANGED conn
     /\ UNCHANGED <<node_vars, nconn, lw, hi, cc, sd, hist, ks, acc, mutex>>

\* Lines 958-962: reload_socket clears the socket handle of the index ...
CsReload1(c) ==
  LET n == conn[c].ini
  IN /\ cs[c].pc = "reload1"
     /\ client_sockets' = [client_sockets EXCEPT ![n][cs[c].idx] = None]
     /\ cs' = [cs EXCEPT ![c].pc = "reload2"]
     /\ ev' = Internal
     /\ UNCHANGED <<running, clients_ip, socket_busy, keys, my_keys, incoming_requests,
                    connection_attempts, nconn, conn, lw, hi, cc, sd, hist, ks, acc, mutex>>

\* Lines 963-966: ... and then its busy flag.
CsReload2(c) ==
  LET n == conn[c].ini
  IN /\ cs[c].pc = "reload2"
     /\ socket_busy' = [socket_busy EXCEPT ![n][cs[c].idx] = FALSE]
     /\ cs' = [cs EXCEPT ![c].pc = "finish", ![c].ret = "false"]
     /\ ev' = Internal
     /\ UNCHANGED <<running, clients_ip, client_sockets, keys, my_keys, incoming_requests,
                    connection_attempts, nconn, conn, lw, hi, cc, sd, hist, ks, acc, mutex>>

\* Lines 794-816: generate the key pair and write the public key.
CsSendKey(c) ==
  LET n == conn[c].ini
  IN /\ cs[c].pc = "sendkey"
     /\ \/ /\ CanWriteOk(c, "I")
           /\ conn' = [conn EXCEPT ![c] = AfterWrite(c, "I", to_pkcs1_der(KeyI(c)))]
           /\ cs' = [cs EXCEPT ![c].pc = "readkey", ![c].w = 0]
           /\ ev' = Internal
        \/ /\ CanWriteErr(c, "I")
           /\ cs' = [cs EXCEPT ![c].pc = "finish", ![c].ret = "false"]
           /\ ev' = Internal
           /\ UNCHANGED conn
     /\ UNCHANGED <<node_vars, nconn, lw, hi, cc, sd, hist, ks, acc, mutex>>

\* Lines 818-839: read_with_timeout and from_pkcs1_der.
CsReadKey(c) ==
  LET n == conn[c].ini
  IN /\ cs[c].pc = "readkey"
     /\ \/ \E j \in 1..Len(conn[c].toI) :
             LET k == from_pkcs1_der(ReadBytes(conn[c].toI, j))
             IN /\ conn' = [conn EXCEPT ![c] = AfterRead(c, "I", j)]
                /\ cs' = IF k # None
                         THEN [cs EXCEPT ![c].pc = "save", ![c].skey = k, ![c].w = 0]
                         ELSE [cs EXCEPT ![c].pc = "finish", ![c].ret = "false", ![c].w = 0]
                /\ ev' = Internal
        \/ /\ \/ CanReadEof(c, "I")
              \/ (conn[c].toI = <<>> /\ cs[c].w >= KEY_TIMEOUT_SECS)
           /\ cs' = [cs EXCEPT ![c].pc = "finish", ![c].ret = "false", ![c].w = 0]
           /\ ev' = Internal
           /\ UNCHANGED conn
     /\ UNCHANGED <<node_vars, nconn, lw, hi, cc, sd, hist, ks, acc, mutex>>

\* Lines 842-857 and 870: the slot is written under the five locks, and the
\* listen_to_server worker is spawned.
CsSave(c) ==
  LET n == conn[c].ini
      i == cs[c].idx
  IN /\ cs[c].pc = "save"
     /\ clients_ip' = [clients_ip EXCEPT ![n][i] = conn[c].addr]
     /\ socket_busy' = [socket_busy EXCEPT ![n][i] = TRUE]
     /\ client_sockets' = [client_sockets EXCEPT ![n][i] = c]
     /\ keys' = [keys EXCEPT ![n][i] = cs[c].skey]
     /\ my_keys' = [my_keys EXCEPT ![n][i] = KeyI(c)]
     /\ lw' = [lw EXCEPT ![c].pc = "loop"]
     /\ cs' = [cs EXCEPT ![c].pc = "finish", ![c].ret = "true", ![c].skey = None]
     /\ ev' = Internal
     /\ UNCHANGED <<running, incoming_requests, connection_attempts, nconn, conn,
                    hi, cc, sd, hist, ks, acc, mutex>>

\* Lines 771-776: the attempt is removed and connect_to_server's result returned.
CsFinish(c) ==
  LET n == conn[c].ini
      a == conn[c].addr
  IN /\ cs[c].pc = "finish"
     /\ connection_attempts' = [connection_attempts EXCEPT ![n] = MapRemove(@, a)]
     /\ cs' = [cs EXCEPT ![c].pc = "done"]
     /\ ev' = Event("create_session", n, a, c, cs[c].ret)
     /\ UNCHANGED <<running, pool, incoming_requests, nconn, conn, lw, hi, cc, sd, hist, ks, acc, mutex>>

\* ------------------------------------------------------------- read loops
\* The queue map after push_back on entry(address).or_insert_with(VecDeque::new).
push_back(q, a, d) ==
  MapInsert(q, a, (IF a \in DOMAIN q THEN q[a] ELSE <<>>) \o <<d>>)

\* Lines 911-913 and 934-942 of listen_to_server: the loop condition and one read.
LsLoop(c) ==
  LET n == conn[c].ini
      i == cs[c].idx
  IN /\ lw[c].pc = "loop"
     /\ IF ~(running[n] /\ socket_busy[n][i])
        THEN /\ lw' = [lw EXCEPT ![c].pc = "exit_busy"]
             /\ ev' = Internal
             /\ UNCHANGED conn
        ELSE \/ \E j \in 1..Len(conn[c].toI) :
                  /\ conn' = [conn EXCEPT ![c] = AfterRead(c, "I", j)]
                  /\ lw' = [lw EXCEPT ![c].pc = "deliver",
                                      ![c].buf = ReadBytes(conn[c].toI, j)]
                  /\ ev' = Internal
             \/ /\ CanReadEof(c, "I")
                /\ lw' = [lw EXCEPT ![c].pc = "exit_busy"]
                /\ ev' = Internal
                /\ UNCHANGED conn
     /\ UNCHANGED <<node_vars, nconn, cs, hi, cc, sd, hist, ks, acc, mutex>>

\* Lines 914-933: decrypt with my_keys[idx] and queue the plaintext.
LsDeliver(c) ==
  LET n == conn[c].ini
      a == conn[c].addr
      key == my_keys[n][cs[c].idx]
      d == decrypt(key, lw[c].buf)
  IN /\ lw[c].pc = "deliver"
     /\ IF key = None
        THEN /\ lw' = [lw EXCEPT ![c].pc = "loop", ![c].buf = Junk]
             /\ ev' = Internal
             /\ UNCHANGED <<incoming_requests, rx>>
        ELSE IF d = None
        THEN /\ lw' = [lw EXCEPT ![c].pc = "exit_busy", ![c].buf = Junk]
             /\ ev' = Internal
             /\ UNCHANGED <<incoming_requests, rx>>
        ELSE /\ incoming_requests' = [incoming_requests EXCEPT ![n] = push_back(@, a, d)]
             /\ rx' = [rx EXCEPT ![c] = Append(@, d)]
             /\ lw' = [lw EXCEPT ![c].pc = "loop", ![c].buf = Junk]
             /\ ev' = Internal
     /\ UNCHANGED <<running, pool, connection_attempts, nconn, conn, cs, hi, cc, sd, got, ks, acc, mutex>>

\* Lines 945-948: the worker clears the busy flag of its index ...
LsExitBusy(c) ==
  LET n == conn[c].ini
  IN /\ lw[c].pc = "exit_busy"
     /\ socket_busy' = [socket_busy EXCEPT ![n][cs[c].idx] = FALSE]
     /\ lw' = [lw EXCEPT ![c].pc = "exit_ip"]
     /\ ev' = Internal
     /\ UNCHANGED <<running, clients_ip, client_sockets, keys, my_keys, incoming_requests,
                    connection_attempts, nconn, conn, cs, hi, cc, sd, hist, ks, acc, mutex>>

\* Lines 950-955: ... then the address, and returns.
LsExitIp(c) ==
  LET n == conn[c].ini
  IN /\ lw[c].pc = "exit_ip"
     /\ clients_ip' = [clients_ip EXCEPT ![n][cs[c].idx] = NoAddr]
     /\ lw' = [lw EXCEPT ![c].pc = "done"]
     /\ ev' = Internal
     /\ UNCHANGED <<running, socket_busy, client_sockets, keys, my_keys, incoming_requests,
                    connection_attempts, nconn, conn, cs, hi, cc, sd, hist, ks, acc, mutex>>

\* ------------------------------------------------- close_connection_internal
\* A release that clears everything in its first step.
CloseStepAtOnce(n, a, i, k) ==
  /\ client_sockets' = IF k = 1 THEN [client_sockets EXCEPT ![n][i] = None]
                       ELSE client_sockets
  /\ conn' = IF k = 1 THEN ShutdownAt(n, client_sockets[n][i], conn) ELSE conn
  /\ clients_ip' = IF k = 1 THEN [clients_ip EXCEPT ![n][i] = NoAddr] ELSE clients_ip
  /\ socket_busy' = IF k = 1 THEN [socket_busy EXCEPT ![n][i] = FALSE] ELSE socket_busy
  /\ keys' = IF k = 1 THEN [keys EXCEPT ![n][i] = None] ELSE keys
  /\ my_keys' = IF k = 1 THEN [my_keys EXCEPT ![n][i] = None] ELSE my_keys
  /\ incoming_requests' = IF k = 1
                          THEN [incoming_requests EXCEPT ![n] = MapRemove(@, a)]
                          ELSE incoming_requests

\* A release that leaves the busy flag as it is.
CloseStepKeepsBusy(n, a, i, k) ==
  /\ client_sockets' = IF k = 1 THEN [client_sockets EXCEPT ![n][i] = None]
                       ELSE client_sockets
  /\ conn' = IF k = 1 THEN ShutdownAt(n, client_sockets[n][i], conn) ELSE conn
  /\ clients_ip' = IF k = 2 THEN [clients_ip EXCEPT ![n][i] = NoAddr] ELSE clients_ip
  /\ socket_busy' = socket_busy
  /\ keys' = IF k = 4 THEN [keys EXCEPT ![n][i] = None] ELSE keys
  /\ my_keys' = IF k = 5 THEN [my_keys EXCEPT ![n][i] = None] ELSE my_keys
  /\ incoming_requests' = IF k = 6
                          THEN [incoming_requests EXCEPT ![n] = MapRemove(@, a)]
                          ELSE incoming_requests
\* Lines 997-1032: the six critical sections of the slot release, in order.
\* Step k of the release of (address a, index i) on node n.
CloseStep(n, a, i, k) ==
  /\ client_sockets' = IF k = 1 THEN [client_sockets EXCEPT ![n][i] = None]
                       ELSE client_sockets
  /\ conn' = IF k = 1 THEN ShutdownAt(n, client_sockets[n][i], conn) ELSE conn
  /\ clients_ip' = IF k = 2 THEN [clients_ip EXCEPT ![n][i] = NoAddr] ELSE clients_ip
  /\ socket_busy' = IF k = 3 THEN [socket_busy EXCEPT ![n][i] = FALSE] ELSE socket_busy
  /\ keys' = IF k = 4 THEN [keys EXCEPT ![n][i] = None] ELSE keys
  /\ my_keys' = IF k = 5 THEN [my_keys EXCEPT ![n][i] = None] ELSE my_keys
  /\ incoming_requests' = IF k = 6
                          THEN [incoming_requests EXCEPT ![n] = MapRemove(@, a)]
                          ELSE incoming_requests
LastCloseStep == 6

\* ----------------------------------------------------------- accept loop
\* An accept loop that gives up after it has refused a blacklisted peer.
AcceptStopsOnRefusal(n, c) ==
  /\ acc[n] = "loop"
  /\ running[n]
  /\ conn[c].up /\ conn[c].tgt = n /\ ~conn[c].accepted
  /\ IF is_blacklisted(conn[c].src)
     THEN /\ conn' = [conn EXCEPT ![c].accepted = TRUE, ![c].rShut = TRUE]
          /\ ev' = Event("accept", n, conn[c].src, c, "blacklisted")
          /\ acc' = [acc EXCEPT ![n] = "stopped"]
          /\ UNCHANGED hi
     ELSE /\ conn' = [conn EXCEPT ![c].accepted = TRUE]
          /\ hi' = [hi EXCEPT ![c].pc = "debounce"]
          /\ ev' = Internal
          /\ UNCHANGED acc
  /\ UNCHANGED <<node_vars, nconn, cs, lw, cc, sd, hist, ks, mutex>>

\* Lines 477-513: one iteration of the accept loop that accepts connection c.
Accept(n, c) ==
  /\ acc[n] = "loop"
  /\ running[n]
  /\ conn[c].up /\ conn[c].tgt = n /\ ~conn[c].accepted
  /\ IF is_blacklisted(conn[c].src)
     THEN /\ conn' = [conn EXCEPT ![c].accepted = TRUE, ![c].rShut = TRUE]
          /\ ev' = Event("accept", n, conn[c].src, c, "blacklisted")
          /\ UNCHANGED hi
     ELSE /\ conn' = [conn EXCEPT ![c].accepted = TRUE]
          /\ hi' = [hi EXCEPT ![c].pc = "debounce"]
          /\ ev' = Internal
  /\ UNCHANGED <<node_vars, nconn, cs, lw, cc, sd, hist, ks, acc, mutex>>

\* A connection to node n that the listener has not handed out yet.
Pending(n, c) == conn[c].up /\ conn[c].tgt = n /\ ~conn[c].accepted

\* Lines 515-524: accept returns WouldBlock (nothing is pending; the thread
\* sleeps 200 ms) or another error (logged); the loop continues.
AcceptPoll(n, r) ==
  /\ acc[n] = "loop"
  /\ running[n]
  /\ r = "would_block" => ~\E c \in ConnIds : Pending(n, c)
  /\ ev' = Event("accept", n, NoAddr, 0, r)
  /\ UNCHANGED <<node_vars, thread_vars, hist>>

\* Lines 477 and 526: the loop condition fails and the accept thread ends.
AcceptStop(n) ==
  /\ acc[n] = "loop"
  /\ ~running[n]
  /\ acc' = [acc EXCEPT ![n] = "stopped"]
  /\ ev' = Internal
  /\ UNCHANGED <<node_vars, nconn, conn, cs, lw, hi, cc, sd, ks, hist, mutex>>

\* --------------------------------------------------------- handle_incoming
\* A debounce check that restarts the window when it rejects.
HiDebounceRefresh(c) ==
  LET n == conn[c].tgt
      a == conn[c].src
  IN /\ hi[c].pc = "debounce"
     /\ connection_attempts' = [connection_attempts EXCEPT ![n] = MapInsert(@, a, 0)]
     /\ IF attempt_in_progress(n, a)
        THEN /\ hi' = [hi EXCEPT ![c].pc = "done"]
             /\ ev' = Event("handle_incoming", n, a, c, "duplicate")
        ELSE /\ hi' = [hi EXCEPT ![c].pc = "readkey", ![c].w = 0]
             /\ ev' = Internal
     /\ UNCHANGED <<running, pool, incoming_requests, nconn, conn, cs, lw, cc, sd, hist, ks, acc, mutex>>

\* Lines 547-556.
HiDebounce(c) ==
  LET n == conn[c].tgt
      a == conn[c].src
  IN /\ hi[c].pc = "debounce"
     /\ IF attempt_in_progress(n, a)
        THEN /\ hi' = [hi EXCEPT ![c].pc = "done"]
             /\ ev' = Event("handle_incoming", n, a, c, "duplicate")
             /\ UNCHANGED connection_attempts
        ELSE /\ connection_attempts' =
                  [connection_attempts EXCEPT ![n] = MapInsert(@, a, 0)]
             /\ hi' = [hi EXCEPT ![c].pc = "readkey", ![c].w = 0]
             /\ ev' = Internal
     /\ UNCHANGED <<running, pool, incoming_requests, nconn, conn, cs, lw, cc, sd, hist, ks, acc, mutex>>

\* A responder that goes on to send its key without reading the peer's.
HiReadKeyNoWait(c) ==
  /\ hi[c].pc = "readkey"
  /\ hi' = [hi EXCEPT ![c].pc = "sendkey", ![c].w = 0]
  /\ ev' = Internal
  /\ UNCHANGED <<node_vars, nconn, conn, cs, lw, cc, sd, hist, ks, acc, mutex>>

\* Lines 558-583: read_with_timeout and from_pkcs1_der.
HiReadKey(c) ==
  LET n == conn[c].tgt
      a == conn[c].src
  IN /\ hi[c].pc = "readkey"
     /\ \/ \E j \in 1..Len(conn[c].toR) :
             LET k == from_pkcs1_der(ReadBytes(conn[c].toR, j))
             IN /\ conn' = [conn EXCEPT ![c] = AfterRead(c, "R", j)]
                /\ hi' = IF k # None
                         THEN [hi EXCEPT ![c].pc = "sendkey", ![c].ckey = k, ![c].w = 0]
                         ELSE [hi EXCEPT ![c].pc = "done", ![c].w = 0]
                /\ ev' = IF k # None THEN Internal
                         ELSE Event("handle_incoming", n, a, c, "invalid_key")
        \/ /\ \/ CanReadEof(c, "R")
              \/ (conn[c].toR = <<>> /\ hi[c].w >= KEY_TIMEOUT_SECS)
           /\ hi' = [hi EXCEPT ![c].pc = "done", ![c].w = 0]
           /\ ev' = Event("handle_incoming", n, a, c, "empty_key")
           /\ UNCHANGED conn
     /\ UNCHANGED <<node_vars, nconn, cs, lw, cc, sd, hist, ks, acc, mutex>>

\* Lines 585-607: generate the key pair and write the public key.
HiSendKey(c) ==
  LET n == conn[c].tgt
      a == conn[c].src
  IN /\ hi[c].pc = "sendkey"
     /\ \/ /\ CanWriteOk(c, "R")
           /\ conn' = [conn EXCEPT ![c] = AfterWrite(c, "R", to_pkcs1_der(KeyR(c)))]
           /\ hi' = [hi EXCEPT ![c].pc = "claim"]
           /\ ev' = Internal
        \/ /\ CanWriteErr(c, "R")
           /\ hi' = [hi EXCEPT ![c].pc = "done", ![c].ckey = None]
           /\ ev' = Event("handle_incoming", n, a, c, "send_error")
           /\ UNCHANGED conn
     /\ UNCHANGED <<node_vars, nconn, cs, lw, cc, sd, hist, ks, acc, mutex>>

\* A scan that always answers with the first index.
free_slot_first(n) == 1
\* Lines 614-620: the first index whose address is empty and that is not busy.
free_slot(n) ==
  IF \E i \in SlotsOf(n) : clients_ip[n][i] = NoAddr /\ ~socket_busy[n][i]
  THEN CHOOSE i \in SlotsOf(n) :
         /\ clients_ip[n][i] = NoAddr /\ ~socket_busy[n][i]
         /\ \A j \in SlotsOf(n) : (clients_ip[n][j] = NoAddr /\ ~socket_busy[n][j]) => i <= j
  ELSE None

\* Lines 610-633: the slot claim, under the address and busy locks.
HiClaim(c) ==
  LET n == conn[c].tgt
      a == conn[c].src
      i == free_slot(n)
  IN /\ hi[c].pc = "claim"
     /\ IF i # None
        THEN /\ clients_ip' = [clients_ip EXCEPT ![n][i] = a]
             /\ socket_busy' = [socket_busy EXCEPT ![n][i] = TRUE]
             /\ hi' = [hi EXCEPT ![c].pc = "save", ![c].idx = i]
             /\ ev' = Internal
        ELSE /\ hi' = [hi EXCEPT ![c].pc = "done", ![c].ckey = None]
             /\ ev' = Event("handle_incoming", n, a, c, "no_free_slots")
             /\ UNCHANGED <<clients_ip, socket_busy>>
     /\ UNCHANGED <<running, client_sockets, keys, my_keys, incoming_requests,
                    connection_attempts, nconn, conn, cs, lw, cc, sd, hist, ks, acc, mutex>>

\* Lines 635-645: socket handle and keys, under their three locks.
HiSave(c) ==
  LET n == conn[c].tgt
      i == hi[c].idx
  IN /\ hi[c].pc = "save"
     /\ client_sockets' = [client_sockets EXCEPT ![n][i] = c]
     /\ keys' = [keys EXCEPT ![n][i] = hi[c].ckey]
     /\ my_keys' = [my_keys EXCEPT ![n][i] = KeyR(c)]
     /\ hi' = [hi EXCEPT ![c].pc = "unattempt", ![c].ckey = None]
     /\ ev' = Internal
     /\ UNCHANGED <<running, clients_ip, socket_busy, incoming_requests,
                    connection_attempts, nconn, conn, cs, lw, cc, sd, hist, ks, acc, mutex>>

\* Lines 649-652: the attempt is removed once the peer is added.
HiUnattempt(c) ==
  LET n == conn[c].tgt
      a == conn[c].src
  IN /\ hi[c].pc = "unattempt"
     /\ connection_attempts' = [connection_attempts EXCEPT ![n] = MapRemove(@, a)]
     /\ hi' = [hi EXCEPT ![c].pc = "loop"]
     /\ ev' = Event("handle_incoming", n, a, c, "added")
     /\ UNCHANGED <<running, pool, incoming_requests, nconn, conn, cs, lw, cc, sd, hist, ks, acc, mutex>>

\* The read loop of handle_incoming without the test of the running flag.
HiLoopIgnoresRunning(c) ==
  LET n == conn[c].tgt
      i == hi[c].idx
  IN /\ hi[c].pc = "loop"
     /\ IF ~socket_busy[n][i]
        THEN /\ hi' = [hi EXCEPT ![c].pc = "close", ![c].k = 1]
             /\ ev' = Internal
             /\ UNCHANGED conn
        ELSE \/ \E j \in 1..Len(conn[c].toR) :
                  /\ conn' = [conn EXCEPT ![c] = AfterRead(c, "R", j)]
                  /\ hi' = [hi EXCEPT ![c].pc = "deliver",
                                      ![c].buf = ReadBytes(conn[c].toR, j)]
                  /\ ev' = Internal
             \/ /\ CanReadEof(c, "R")
                /\ hi' = [hi EXCEPT ![c].pc = "close", ![c].k = 1]
                /\ ev' = Internal
                /\ UNCHANGED conn
     /\ UNCHANGED <<node_vars, nconn, cs, lw, cc, sd, hist, ks, acc, mutex>>

\* Lines 661-663 and 684-691: the loop condition and one read.
HiLoop(c) ==
  LET n == conn[c].tgt
      i == hi[c].idx
  IN /\ hi[c].pc = "loop"
     /\ IF ~(running[n] /\ socket_busy[n][i])
        THEN /\ hi' = [hi EXCEPT ![c].pc = "close", ![c].k = 1]
             /\ ev' = Internal
             /\ UNCHANGED conn
        ELSE \/ \E j \in 1..Len(conn[c].toR) :
                  /\ conn' = [conn EXCEPT ![c] = AfterRead(c, "R", j)]
                  /\ hi' = [hi EXCEPT ![c].pc = "deliver",
                                      ![c].buf = ReadBytes(conn[c].toR, j)]
                  /\ ev' = Internal
             \/ /\ CanReadEof(c, "R")
                /\ hi' = [hi EXCEPT ![c].pc = "close", ![c].k = 1]
                /\ ev' = Internal
                /\ UNCHANGED conn
     /\ UNCHANGED <<node_vars, nconn, cs, lw, cc, sd, hist, ks, acc, mutex>>

\* Lines 664-683: decrypt with my_keys[slot_idx] and queue the plaintext.
HiDeliver(c) ==
  LET n == conn[c].tgt
      a == conn[c].src
      key == my_keys[n][hi[c].idx]
      d == decrypt(key, hi[c].buf)
  IN /\ hi[c].pc = "deliver"
     /\ IF key = None
        THEN /\ hi' = [hi EXCEPT ![c].pc = "loop", ![c].buf = Junk]
             /\ ev' = Internal
             /\ UNCHANGED <<incoming_requests, rx>>
        ELSE IF d = None
        THEN /\ hi' = [hi EXCEPT ![c].pc = "close", ![c].k = 1, ![c].buf = Junk]
             /\ ev' = Internal
             /\ UNCHANGED <<incoming_requests, rx>>
        ELSE /\ incoming_requests' = [incoming_requests EXCEPT ![n] = push_back(@, a, d)]
             /\ rx' = [rx EXCEPT ![c] = Append(@, d)]
             /\ hi' = [hi EXCEPT ![c].pc = "loop", ![c].buf = Junk]
             /\ ev' = Internal
     /\ UNCHANGED <<running, pool, connection_attempts, nconn, conn, cs, lw, cc, sd, got, ks, acc, mutex>>

\* Lines 695-706: the worker releases its slot.
HiClose(c) ==
  LET n == conn[c].tgt
      k == hi[c].k
  IN /\ hi[c].pc = "close"
     /\ CloseStep(n, conn[c].src, hi[c].idx, k)
     /\ hi' = IF k = LastCloseStep THEN [hi EXCEPT ![c].pc = "done", ![c].k = 0]
              ELSE [hi EXCEPT ![c].k = k + 1]
     /\ got' = IF k = LastCloseStep THEN [got EXCEPT ![n][conn[c].src] = <<>>] ELSE got
     /\ ev' = Internal
     /\ UNCHANGED <<running, connection_attempts, nconn, cs, lw, cc, sd, rx, ks, acc, mutex>>

\* -------------------------------------------------------- close_connection
\* A close_connection that releases the first slot when no slot holds the
\* address.
CloseConnectionAnyway(n, a) ==
  LET i == get_ind_by_address(n, a)
  IN /\ cc[n].pc = "idle"
     /\ cc' = [cc EXCEPT ![n] = [pc |-> "close", a |-> a,
                                  idx |-> IF i = None THEN 1 ELSE i, k |-> 1]]
     /\ ev' = Internal
     /\ UNCHANGED <<node_vars, nconn, conn, cs, lw, hi, sd, hist, ks, acc, mutex>>

\* Lines 969-984: look the index up, then release it.
CloseConnection(n, a) ==
  LET i == get_ind_by_address(n, a)
  IN /\ cc[n].pc = "idle"
     /\ IF i = None
        THEN /\ ev' = Event("close_connection", n, a, 0, "not_connected")
             /\ UNCHANGED cc
        ELSE /\ cc' = [cc EXCEPT ![n] = [pc |-> "close", a |-> a, idx |-> i, k |-> 1]]
             /\ ev' = Internal
     /\ UNCHANGED <<node_vars, nconn, conn, cs, lw, hi, sd, hist, ks, acc, mutex>>

CcStep(n) ==
  LET k == cc[n].k
  IN /\ cc[n].pc = "close"
     /\ CloseStep(n, cc[n].a, cc[n].idx, k)
     /\ cc' = IF k = LastCloseStep THEN [cc EXCEPT ![n] = NoCc]
              ELSE [cc EXCEPT ![n].k = k + 1]
     /\ got' = IF k = LastCloseStep THEN [got EXCEPT ![n][cc[n].a] = <<>>] ELSE got
     /\ ev' = IF k = LastCloseStep THEN Event("close_connection", n, cc[n].a, 0, "closed")
              ELSE Internal
     /\ UNCHANGED <<running, connection_attempts, nconn, cs, lw, hi, sd, rx, ks, acc, mutex>>

\* -------------------------------------------------------------------- send
\* Lines 1038-1044: the index of the address.
Send(n, a, m) ==
  LET i == get_ind_by_address(n, a)
  IN /\ sd[n].pc = "idle"
     /\ IF i = None
        THEN /\ ev' = MsgEvent("send", n, a, 0, m, "false_not_connected")
             /\ UNCHANGED sd
        ELSE /\ sd' = [sd EXCEPT ![n] = [pc |-> "key", a |-> a, m |-> m, idx |-> i,
                                         key |-> None]]
             /\ ev' = Internal
     /\ UNCHANGED <<node_vars, nconn, conn, cs, lw, hi, cc, hist, ks, acc, mutex>>

\* Lines 1046-1054 and 1082-1085: the peer's public key of that index.
SdKey(n) ==
  LET k == keys[n][sd[n].idx]
  IN /\ sd[n].pc = "key"
     /\ IF k = None
        THEN /\ sd' = [sd EXCEPT ![n] = NoSd]
             /\ ev' = MsgEvent("send", n, sd[n].a, 0, sd[n].m, "false_no_key")
        ELSE /\ sd' = [sd EXCEPT ![n].pc = "write", ![n].key = k]
             /\ ev' = Internal
     /\ UNCHANGED <<node_vars, nconn, conn, cs, lw, hi, cc, hist, ks, acc, mutex>>

\* Lines 1055-1074: the socket of that index, and the write of the ciphertext.
SdWrite(n) ==
  LET c == client_sockets[n][sd[n].idx]
      side == SideOf(n, c)
  IN /\ sd[n].pc = "write"
     /\ sd' = [sd EXCEPT ![n] = NoSd]
     /\ IF c = None
        THEN /\ ev' = MsgEvent("send", n, sd[n].a, 0, sd[n].m, "false_no_socket")
             /\ UNCHANGED conn
        ELSE \/ /\ CanWriteOk(c, side)
                /\ conn' = [conn EXCEPT
                              ![c] = AfterWrite(c, side, encrypt(sd[n].key, sd[n].m))]
                /\ ev' = MsgEvent("send", n, sd[n].a, c, sd[n].m, "true")
             \/ /\ CanWriteErr(c, side)
                /\ ev' = MsgEvent("send", n, sd[n].a, c, sd[n].m, "false_write")
                /\ UNCHANGED conn
     /\ UNCHANGED <<node_vars, nconn, cs, lw, hi, cc, hist, ks, acc, mutex>>

\* ------------------------------------------------------------- get_request
\* Lines 1130-1137: pop_front of the address's queue.
GetRequest(n, a) ==
  LET q == incoming_requests[n]
  IN IF a \in DOMAIN q /\ q[a] # <<>>
     THEN /\ incoming_requests' = [incoming_requests EXCEPT ![n][a] = Tail(@)]
          /\ got' = [got EXCEPT ![n][a] = Append(@, q[a][1])]
          /\ ev' = MsgEvent("get_request", n, a, 0, q[a][1], "some")
          /\ UNCHANGED <<running, pool, connection_attempts, thread_vars, rx>>
     ELSE /\ ev' = Event("get_request", n, a, 0, "none")
          /\ UNCHANGED <<node_vars, thread_vars, hist>>

\* ------------------------------------------------------------- kill_server
\* Lines 1158-1164: the non-empty addresses from index i on, in index order.
RECURSIVE clients_from(_, _)
clients_from(n, i) ==
  IF i \notin SlotsOf(n) THEN <<>>
  ELSE (IF clients_ip[n][i] = NoAddr THEN <<>> ELSE <<clients_ip[n][i]>>)
         \o clients_from(n, i + 1)

\* The read worker of connection c on node n is in its loop, on a socket that
\* was not shut down.
Serving(n, c) ==
  \/ conn[c].ini = n /\ lw[c].pc \in {"loop", "deliver"} /\ ~conn[c].iShut
  \/ conn[c].tgt = n /\ hi[c].pc \in {"loop", "deliver"} /\ ~conn[c].rShut

\* Lines 1154-1156: the running flag is cleared, and the caller sleeps 500 ms.
KillServer(n) ==
  /\ ks[n].pc = "idle"
  /\ running' = [running EXCEPT ![n] = FALSE]
  /\ ks' = [ks EXCEPT ![n].pc = "collect",
                      ![n].live = {c \in ConnIds : Serving(n, c)}]
  /\ ev' = Internal
  /\ UNCHANGED <<pool, incoming_requests, connection_attempts, nconn, conn,
                 cs, lw, hi, cc, sd, hist, acc, mutex>>

\* Lines 1158-1164: the connected addresses are copied under the address lock.
KsCollect(n) ==
  /\ ks[n].pc = "collect"
  /\ ks' = [ks EXCEPT ![n].pc = "next", ![n].clients = clients_from(n, 1)]
  /\ ev' = Internal
  /\ UNCHANGED <<node_vars, nconn, conn, cs, lw, hi, cc, sd, hist, acc, mutex>>

\* Lines 1166-1173 and 969-971: the next address of the copy is looked up by
\* close_connection; when none is left kill_server returns Ok.
KsNext(n) ==
  /\ ks[n].pc = "next"
  /\ IF ks[n].clients = <<>>
     THEN /\ ks' = [ks EXCEPT ![n].pc = "done"]
          /\ ev' = Event("kill_server", n, NoAddr, 0, "ok")
     ELSE LET a == Head(ks[n].clients)
              i == get_ind_by_address(n, a)
          IN /\ ks' = IF i = None
                      THEN [ks EXCEPT ![n].clients = Tail(@)]
                      ELSE [ks EXCEPT ![n].clients = Tail(@), ![n].pc = "close",
                                      ![n].a = a, ![n].idx = i, ![n].k = 1]
             /\ ev' = Internal
  /\ UNCHANGED <<node_vars, nconn, conn, cs, lw, hi, cc, sd, hist, acc, mutex>>

\* Lines 972-982: close_connection_internal for that address and index.
KsClose(n) ==
  LET k == ks[n].k
  IN /\ ks[n].pc = "close"
     /\ CloseStep(n, ks[n].a, ks[n].idx, k)
     /\ ks' = IF k = LastCloseStep
              THEN [ks EXCEPT ![n].pc = "next", ![n].a = NoAddr, ![n].idx = 0, ![n].k = 0]
              ELSE [ks EXCEPT ![n].k = k + 1]
     /\ got' = IF k = LastCloseStep THEN [got EXCEPT ![n][ks[n].a] = <<>>] ELSE got
     /\ ev' = Internal
     /\ UNCHANGED <<running, connection_attempts, nconn, cs, lw, hi, cc, sd, rx, acc, mutex>>

\* ------------------------------------------------------------- environment
EnvSide(c) == IF conn[c].ini = Env THEN "I" ELSE "R"
NodeSide(c) == IF conn[c].ini = Env THEN "R" ELSE "I"
EnvIsEnd(c) == conn[c].up /\ (conn[c].ini = Env \/ conn[c].tgt = Env)
\* The node's key of connection c, once the node has written it.
NodeKeySent(c) ==
  IF conn[c].ini = Env
  THEN hi[c].pc \in {"claim", "save", "unattempt", "loop", "deliver", "close", "done"}
  ELSE cs[c].pc \in {"readkey", "save", "finish", "done"}
NodeKey(c) == IF conn[c].ini = Env THEN KeyR(c) ELSE KeyI(c)
EnvKey(c) == IF conn[c].ini = Env THEN KeyI(c) ELSE KeyR(c)
EnvSent(c) == IF conn[c].ini = Env THEN conn[c].sentI ELSE conn[c].sentR

\* A remote program at address x connects to node n.
EnvConnect(x, n) ==
  LET c == nconn + 1
  IN /\ nconn < MaxConn
     /\ nconn' = c
     /\ conn' = [conn EXCEPT ![c] = [NoConn EXCEPT !.ini = Env, !.src = x, !.tgt = n,
                                                   !.addr = HostOf(n), !.port = PortOf(n),
                                                   !.up = TRUE]]
     /\ ev' = Internal
     /\ UNCHANGED <<node_vars, cs, lw, hi, cc, sd, hist, ks, acc, mutex>>

\* The bytes a remote program can write: its public key, a message encrypted
\* to the node's key of this connection, or anything else.
\* It writes at most 1 + MaxMsg times and numbers its messages 1, 2, ...
EnvFrames(c) ==
  (IF EnvSent(c) = 0 THEN {to_pkcs1_der(EnvKey(c))} ELSE {})
    \cup (IF EnvSent(c) <= MaxMsg THEN {Junk} ELSE {})
    \cup (IF NodeKeySent(c) /\ EnvSent(c) \in 1..MaxMsg
          THEN {encrypt(NodeKey(c), EnvSent(c))} ELSE {})

EnvWrite(c, f) ==
  /\ EnvIsEnd(c)
  /\ ~LocalShut(c, EnvSide(c))
  /\ PeerOpen(c, EnvSide(c))
  /\ f \in EnvFrames(c)
  /\ conn' = [conn EXCEPT
       ![c] = IF conn[c].ini = Env
              THEN [@ EXCEPT !.toR = Append(@, f), !.sentI = @ + 1]
              ELSE [@ EXCEPT !.toI = Append(@, f), !.sentR = @ + 1]]
  /\ ev' = Internal
  /\ UNCHANGED <<node_vars, nconn, cs, lw, hi, cc, sd, hist, ks, acc, mutex>>

\* A remote program closes its end.  (Closing after the node's end is gone
\* changes nothing the node can see.)
EnvClose(c) ==
  /\ EnvIsEnd(c)
  /\ ~LocalShut(c, EnvSide(c))
  /\ PeerOpen(c, EnvSide(c))
  /\ conn' = IF conn[c].ini = Env THEN [conn EXCEPT ![c].iShut = TRUE]
             ELSE [conn EXCEPT ![c].rShut = TRUE]
  /\ ev' = Internal
  /\ UNCHANGED <<node_vars, nconn, cs, lw, hi, cc, sd, hist, ks, acc, mutex>>

\* -------------------------------------------------------------------- time
Saturate(t, cap) == IF t < cap THEN t + 1 ELSE cap
\* One second passes: every recorded attempt is a second older, and every
\* thread blocked in read_with_timeout has waited a second longer.
Tick ==
  /\ \/ \E n \in Node : \E a \in DOMAIN connection_attempts[n] :
          connection_attempts[n][a] < DEBOUNCE_SECS
     \/ \E c \in ConnIds : cs[c].pc = "readkey" /\ cs[c].w < KEY_TIMEOUT_SECS
     \/ \E c \in ConnIds : hi[c].pc = "readkey" /\ hi[c].w < KEY_TIMEOUT_SECS
  /\ connection_attempts' =
       [n \in Node |-> [a \in DOMAIN connection_attempts[n] |->
                          Saturate(connection_attempts[n][a], DEBOUNCE_SECS)]]
  /\ cs' = [c \in ConnIds |->
              IF cs[c].pc = "readkey"
              THEN [cs[c] EXCEPT !.w = Saturate(@, KEY_TIMEOUT_SECS)] ELSE cs[c]]
  /\ hi' = [c \in ConnIds |->
              IF hi[c].pc = "readkey"
              THEN [hi[c] EXCEPT !.w = Saturate(@, KEY_TIMEOUT_SECS)] ELSE hi[c]]
  /\ ev' = Internal
  /\ UNCHANGED <<running, pool, incoming_requests, nconn, conn, lw, cc, sd, hist, ks, acc, mutex>>

\* ---------------------------------------------------------- specifications
\* The first bytes a remote program writes on connection c.
FirstFrames(c) == IF EnvSent(c) = 0 THEN EnvFrames(c) ELSE {}

\* The handshake steps of the outbound attempt c, and its worker's exit.
OutboundStep(c) ==
  \/ CsDebounce(c) \/ CsScan(c) \/ CsAllBusy(c) \/ CsConnect(c)
  \/ CsReload1(c) \/ CsReload2(c) \/ CsSendKey(c) \/ CsReadKey(c)
  \/ CsSave(c) \/ CsFinish(c)
  \/ LsLoop(c) \/ LsExitBusy(c) \/ LsExitIp(c)
\* The handshake steps of the worker of the inbound connection c, and its exit.
InboundStep(c) ==
  \/ HiDebounce(c) \/ HiReadKey(c) \/ HiSendKey(c) \/ HiClaim(c) \/ HiSave(c)
  \/ HiUnattempt(c) \/ HiLoop(c) \/ HiClose(c)

\* Node A among remote programs: a peer that shares A's own address
\* connects to it while its console connects out to hx and to a port nobody
\* listens on.
Next ==
  \/ \E a \in {"hx", "ha"} : CreateSession("A", a, 2)
  \/ EnvConnect("ha", "A")
  \/ \E c \in ConnIds : Accept("A", c)
  \/ \E c \in ConnIds : OutboundStep(c)
  \/ \E c \in ConnIds : InboundStep(c)
  \/ \E c \in ConnIds : \E f \in FirstFrames(c) : EnvWrite(c, f)
  \/ \E c \in ConnIds : EnvClose(c)

Spec == Init /\ [][Next]_vars

\* ------------------------------------------------------------------ claims
\* The sessions of node n whose read worker is in its loop on a socket that
\* was not shut down, and the slot index each was written into.
LiveOut(n) == {c \in ConnIds : conn[c].ini = n /\ lw[c].pc \in {"loop", "deliver"}
                                /\ ~conn[c].iShut}
LiveIn(n) == {c \in ConnIds : conn[c].tgt = n /\ hi[c].pc \in {"loop", "deliver"}
                               /\ ~conn[c].rShut}
LiveSessions(n) == LiveOut(n) \cup LiveIn(n)
SlotOf(n, c) == IF conn[c].ini = n THEN cs[c].idx ELSE hi[c].idx

\* C1: with max_clients = N, the number of concurrently live sessions of a
\* node (sessions whose read worker is active) never exceeds N.
C1_Capacity == \A n \in Node : Cardinality(LiveSessions(n)) <= max_clients(n)

\* C2: a slot index is occupied by at most one live session: no two
\* sessions whose read workers are both active were written into the same
\* slot index.
C2_OneSessionPerSlot ==
  \A n \in Node : \A c1, c2 \in LiveSessions(n) :
    c1 # c2 => SlotOf(n, c1) # SlotOf(n, c2)

\* An attempt for address a is under way on node n: a thread that recorded
\* the attempt has not yet learnt its outcome.
InFlight(n, a) ==
  \E c \in ConnIds :
    \/ /\ conn[c].ini = n /\ conn[c].addr = a
       /\ cs[c].pc \in {"scan", "allbusy", "connect", "reload1", "reload2",
                        "sendkey", "readkey", "save", "finish"}
    \/ /\ conn[c].tgt = n /\ conn[c].src = a
       /\ hi[c].pc \in {"readkey", "sendkey", "claim", "save", "unattempt"}

\* C4: the connection-attempt entry of an address is removed as soon as the
\* attempt that recorded it concludes, whether it succeeds or fails: an entry
\* exists only while an attempt for its address is under way.
C4_EntryRemovedOnOutcome ==
  \A n \in Node : \A a \in DOMAIN connection_attempts[n] : InFlight(n, a)

\* ------------------------------------------------- the gates of a handshake
\* The steps of an outbound attempt whose connect is refused.
RefusedStep(c) ==
  \/ CsDebounce(c) \/ CsScan(c) \/ CsAllBusy(c) \/ CsConnect(c)
  \/ CsReload1(c) \/ CsReload2(c) \/ CsFinish(c)

\* Node A, a peer that shares A's own address (self.host, the public IP) and
\* a blacklisted peer: both connect to A, and A's console calls
\* create_session on its own address and port, on its own address and a
\* port nobody listens on, and on the blacklisted address.
NextApi ==
  \/ \E p \in {PortOf("A"), PortOf("B")} : CreateSession("A", "ha", p)
  \/ CreateSession("A", "bl", PortOf("B"))
  \/ \E x \in {"ha", "bl"} : EnvConnect(x, "A")
  \/ \E c \in ConnIds : Accept("A", c)
  \/ \E c \in ConnIds : RefusedStep(c)
  \/ \E c \in ConnIds : InboundStep(c)
  \/ \E c \in ConnIds : \E f \in FirstFrames(c) : EnvWrite(c, f)
  \/ \E c \in ConnIds : EnvClose(c)

SpecApi == Init /\ [][NextApi]_vars

\* C5: an inbound connection from a blacklisted address is shut down by the
\* accept loop itself: the step changes no slot, no key, no queue and no
\* attempt entry and spawns no worker, and such a connection never has a
\* handshake worker and is never sent a byte.
C5_BlacklistedInbound ==
  [][/\ \A c \in ConnIds :
          (conn[c].src \in blacklist /\ Accept("A", c))
            => /\ conn'[c].rShut
               /\ UNCHANGED <<node_vars, nconn, cs, lw, hi, cc, sd, hist, ks, acc, mutex>>
     /\ \A c \in ConnIds :
          (conn'[c].tgt \in Node /\ conn'[c].src \in blacklist)
            => hi'[c].pc = "none" /\ conn'[c].toI = <<>>]_vars
\* The accept loop has just refused a blacklisted connection.
C5_Witness ==
  /\ ev.op = "accept" /\ ev.r = "blacklisted" /\ ev.a \in blacklist
  /\ conn[ev.c].rShut /\ hi[ev.c].pc = "none"

\* C6: create_session on a blacklisted address returns false at once: it
\* opens no connection, records no attempt entry and changes no slot.
C6_BlacklistedOutbound ==
  [][\A a \in blacklist : \A p \in {PortOf("A"), PortOf("B")} :
       CreateSession("A", a, p)
         => /\ ev'.r \in {"false_blacklist", "false_self"}
            /\ UNCHANGED <<node_vars, thread_vars, hist>>]_vars
\* create_session has just refused a blacklisted address.
C6_Witness ==
  /\ ev.op = "create_session" /\ ev.a \in blacklist /\ ev.r = "false_blacklist"
  /\ nconn > 0

\* C7 as stated: create_session(a) while a slot already holds a returns true
\* and changes nothing.
C7_AlreadyConnectedTrue ==
  [][\A a \in Addr : \A p \in {PortOf("A"), PortOf("B")} :
       ((\E i \in Slots : clients_ip["A"][i] = a) /\ CreateSession("A", a, p))
         => /\ ev'.r = "true_already"
            /\ UNCHANGED <<node_vars, thread_vars, hist>>]_vars
\* C7, amended: create_session(a, port) while a slot already holds a changes
\* nothing and opens no connection; it returns true, unless a and port are
\* the node's own address and port, and then it returns false.
C7_AlreadyConnected ==
  [][\A a \in Addr : \A p \in {PortOf("A"), PortOf("B")} :
       ((\E i \in Slots : clients_ip["A"][i] = a) /\ CreateSession("A", a, p))
         => /\ ev'.r = IF a = "ha" /\ p = PortOf("A") THEN "false_self"
                       ELSE "true_already"
            /\ UNCHANGED <<node_vars, thread_vars, hist>>]_vars
\* create_session has just found its address in a slot and returned true.
C7_Witness ==
  /\ ev.op = "create_session" /\ ev.r = "true_already"
  /\ \E i \in SlotsOf(ev.n) : clients_ip[ev.n][i] = ev.a /\ socket_busy[ev.n][i]

\* C16: create_session on the node's own address and port returns false
\* before anything is allocated: no attempt entry, no socket, no slot change.
C16_SelfConnection ==
  [][CreateSession("A", HostOf("A"), PortOf("A"))
       => /\ ev' = Event("create_session", "A", HostOf("A"), 0, "false_self")
          /\ UNCHANGED <<node_vars, thread_vars, hist>>]_vars
\* create_session has just refused the node's own address and port, on a
\* node that has seen connections.
C16_Witness ==
  /\ ev = Event("create_session", "A", HostOf("A"), 0, "false_self")
  /\ nconn > 0

\* ------------------------------------------------------------ the debounce
\* The handshake of an outbound attempt, and of an inbound worker.
HandshakeOut(c) ==
  \/ CsDebounce(c) \/ CsScan(c) \/ CsAllBusy(c) \/ CsConnect(c)
  \/ CsSendKey(c) \/ CsReadKey(c) \/ CsSave(c) \/ CsFinish(c)
HandshakeIn(c) ==
  \/ HiDebounce(c) \/ HiReadKey(c) \/ HiSendKey(c) \/ HiClaim(c) \/ HiSave(c)
  \/ HiUnattempt(c)
\* The public key of the remote program, as the first bytes it writes.
KeyFrame(c) == {f \in FirstFrames(c) : from_pkcs1_der(f) # None}

\* Node A and the remote program at hx, which connects to A while A's console
\* connects to it, as seconds pass: the handshakes up to their outcome.
NextDebounce ==
  \/ CreateSession("A", "hx", PortOf("B"))
  \/ EnvConnect("hx", "A")
  \/ \E c \in ConnIds : Accept("A", c)
  \/ \E c \in ConnIds : HandshakeOut(c)
  \/ \E c \in ConnIds : HandshakeIn(c)
  \/ \E c \in ConnIds : \E f \in KeyFrame(c) : EnvWrite(c, f)
  \/ Tick

SpecDebounce == Init /\ [][NextDebounce]_vars

\* An attempt for address a is recorded on node n and less than 5 seconds old.
Fresh(n, a) ==
  a \in DOMAIN connection_attempts[n] /\ connection_attempts[n][a] < 5
\* An inbound worker that runs its debounce check while the attempt is fresh
\* returns there: it reads no key and changes nothing.
InboundRejected ==
  \A c \in ConnIds :
    (hi[c].pc = "debounce" /\ Fresh(conn[c].tgt, conn[c].src) /\ HiDebounce(c))
      => /\ hi'[c].pc = "done"
         /\ UNCHANGED <<node_vars, nconn, conn, cs, lw, cc, sd, hist, ks, acc, mutex>>
\* A create_session call that runs its debounce check while the attempt is
\* fresh returns false there: no socket is opened and nothing changes.
OutboundRejected ==
  \A c \in ConnIds :
    (cs[c].pc = "debounce" /\ Fresh(conn[c].ini, conn[c].addr) /\ CsDebounce(c))
      => /\ cs'[c].pc = "done" /\ cs'[c].ret = "false" /\ ~conn'[c].up
         /\ UNCHANGED <<node_vars, nconn, conn, lw, hi, cc, sd, hist, ks, acc, mutex>>

WorkerIn(c) == InboundStep(c) \/ HiDeliver(c)
\* The bytes of a remote program that follows the protocol: its key, then
\* one ciphertext per message.
Wire(c) == {f \in EnvFrames(c) : f # Junk}

\* Node A and the remote program at hx, which connects (MsgConn times at
\* most), sends its key and its messages and may close; A's monitor polls
\* get_request.
NextMsg ==
  \/ (nconn < MsgConn /\ EnvConnect("hx", "A"))
  \/ \E c \in ConnIds : Accept("A", c)
  \/ \E c \in ConnIds : WorkerIn(c)
  \/ \E c \in ConnIds : \E f \in Wire(c) : EnvWrite(c, f)
  \/ \E c \in ConnIds : EnvClose(c)
  \/ GetRequest("A", "hx")

SpecMsg == Init /\ [][NextMsg]_vars

\* Node A and the remote program at hx, which connects again after its
\* connection ended.
NextFifo ==
  \/ EnvConnect("hx", "A")
  \/ \E c \in ConnIds : Accept("A", c)
  \/ \E c \in ConnIds : WorkerIn(c)
  \/ \E c \in ConnIds : \E f \in Wire(c) : EnvWrite(c, f)
  \/ \E c \in ConnIds : EnvClose(c)
  \/ GetRequest("A", "hx")

SpecFifo == Init /\ [][NextFifo]_vars

\* The queue of address a on node n, empty when the map has no entry.
Queue(n, a) == IF a \in DOMAIN incoming_requests[n] THEN incoming_requests[n][a] ELSE <<>>
\* The inbound session c is live: its worker is in its read loop and its
\* slot still holds its address and socket.
LiveInbound(c) ==
  LET n == conn[c].tgt
      i == hi[c].idx
  IN /\ n \in Node /\ hi[c].pc \in {"loop", "deliver"}
     /\ clients_ip[n][i] = conn[c].src /\ socket_busy[n][i]
     /\ client_sockets[n][i] = c
\* c is the node's only connection with its peer address: every other one
\* has ended, or has not got a slot.
SingleConnection(c) ==
  \A c2 \in ConnIds \ {c} :
    /\ (conn[c2].tgt = conn[c].tgt /\ conn[c2].src = conn[c].src)
         => hi[c2].pc \in {"none", "debounce", "readkey", "sendkey", "claim", "done"}
    /\ (conn[c2].ini = conn[c].tgt /\ conn[c2].addr = conn[c].src)
         => lw[c2].pc \in {"none", "done"}

\* C8: for a single live connection with peer a, the messages get_request(a)
\* has returned from the queue, followed by the messages still queued, are
\* exactly the messages the connection's read worker decrypted, in the order
\* it read them: none is skipped, reordered or returned twice.
C8_Fifo ==
  \A c \in ConnIds :
    (LiveInbound(c) /\ SingleConnection(c))
      => got[conn[c].tgt][conn[c].src] \o Queue(conn[c].tgt, conn[c].src) = rx[c]

\* C9: get_request(a) on an address whose queue is absent or empty returns
\* None and leaves the map unchanged, and get_request(a) returns a message
\* exactly when check_request(a) is true in the state it is called in.
C9_GetRequestNone ==
  [][GetRequest("A", "hx")
       => /\ ("hx" \notin DOMAIN incoming_requests["A"] \/ incoming_requests["A"]["hx"] = <<>>)
               => /\ ev'.r = "none"
                  /\ UNCHANGED <<node_vars, thread_vars, hist>>
          /\ check_request("A", "hx") <=> ev'.r = "some"]_vars
\* get_request has just returned None on a queue that exists and is empty.
C9_Witness ==
  /\ ev.op = "get_request" /\ ev.r = "none"
  /\ "hx" \in DOMAIN incoming_requests["A"] /\ incoming_requests["A"]["hx"] = <<>>
  /\ got["A"]["hx"] # <<>>

\* ------------------------------------------------------------ end to end
\* An outbound session from its handshake to the exit of its read worker.
SessionOut(c) ==
  \/ CsDebounce(c) \/ CsScan(c) \/ CsConnect(c) \/ CsSendKey(c) \/ CsReadKey(c)
  \/ CsSave(c) \/ CsFinish(c) \/ LsLoop(c) \/ LsExitBusy(c) \/ LsExitIp(c)
\* The console thread of main runs one command at a time.
ConsoleIdle(n) ==
  /\ sd[n].pc = "idle"
  /\ \A c \in ConnIds : conn[c].ini = n => cs[c].pc \in {"none", "done"}
\* The console sends at most MaxMsg messages on one connection.
CanSendMore(n, a) ==
  LET i == get_ind_by_address(n, a)
  IN IF i = None THEN TRUE
     ELSE IF client_sockets[n][i] = None THEN TRUE
     ELSE conn[client_sockets[n][i]].sentI <= MaxMsg

\* Nodes A and B: A's console connects to B and sends it messages, and
\* connects again when the session has ended; B's monitor polls get_request.
NextE2E ==
  \/ (ConsoleIdle("A") /\ CreateSession("A", "hb", PortOf("B")))
  \/ \E c \in ConnIds : Accept("B", c)
  \/ \E c \in ConnIds : SessionOut(c)
  \/ \E c \in ConnIds : WorkerIn(c)
  \/ (ConsoleIdle("A") /\ CanSendMore("A", "hb") /\ \E m \in Msgs : Send("A", "hb", m))
  \/ SdKey("A")
  \/ SdWrite("A")
  \/ GetRequest("B", "ha")

\* Every worker thread that can take a step eventually takes one.
SpecE2E ==
  /\ Init /\ [][NextE2E]_vars
  /\ \A c \in ConnIds : WF_vars(WorkerIn(c))

\* Message m is in the queue of address a on node n.
InQueue(n, a, m) ==
  check_request(n, a) /\ \E k \in 1..Len(Queue(n, a)) : Queue(n, a)[k] = m
\* B's read worker of connection c has left its read loop, or never entered it.
DownAtB(c) == hi[c].pc \in {"close", "done"}

\* C10: if A's send(B, m) returned true on the connection c that
\* create_session(B) set up, then, unless B's read worker of c stops,
\* eventually m is in B's queue for A: check_request(A) is true and
\* get_request(A) returns m.
C10_EndToEnd ==
  \A c \in ConnIds : \A m \in Msgs :
    (ev = MsgEvent("send", "A", "hb", c, m, "true"))
      ~> (InQueue("B", "ha", m) \/ DownAtB(c))


\* ------------------------------------------------------------ kill_server
\* The steps of kill_server on node n.
KillStep(n) == KsCollect(n) \/ KsNext(n) \/ KsClose(n)

\* Node A with an outbound session to hx and inbound connections from hx; the
\* console thread that called create_session calls kill_server at the end.
NextKill ==
  \/ /\ ks["A"].pc = "idle"
     /\ CreateSession("A", "hx", 2)
  \/ EnvConnect("hx", "A")
  \/ \E c \in ConnIds : Accept("A", c)
  \/ \E c \in ConnIds : SessionOut(c) \/ CsAllBusy(c)
  \/ \E c \in ConnIds : InboundStep(c)
  \/ \E c \in ConnIds : \E f \in KeyFrame(c) : EnvWrite(c, f)
  \/ \E c \in ConnIds : EnvClose(c)
  \/ /\ ConsoleIdle("A")
     /\ KillServer("A")
  \/ KillStep("A")

SpecKill == Init /\ [][NextKill]_vars

\* C11: after kill_server returns on a node that had live connections,
\* get_connected_clients returns the empty list: every slot's address is
\* empty.
C11_KillEmptiesClients ==
  \A n \in Node :
    (ks[n].pc = "done" /\ ks[n].live # {}) => get_connected_clients(n) = {}

\* C12: after kill_server returns, the socket of every connection that was
\* live when it was called has been shut down and its handle is no longer in
\* the slot pool, whoever released the slot first.
C12_KillClosesSockets ==
  \A n \in Node :
    ks[n].pc = "done" =>
      \A c \in ks[n].live : LocalShut(c, SideOf(n, c)) /\ ~SlotHolds(n, c)


\* The steps of create_session on connection c between the debounce check and
\* its return, when the pool of the caller has a free slot.
CsHandshake(c) ==
  \/ CsDebounce(c) \/ CsScan(c) \/ CsConnect(c)
  \/ CsSendKey(c) \/ CsReadKey(c) \/ CsSave(c) \/ CsFinish(c)

\* ------------------------------------------------------------ key exchange
\* Nodes A and B and the remote program at hx: A's console connects to B,
\* hx connects to B, and every handshake runs to its outcome.
NextKeys ==
  \/ (ConsoleIdle("A") /\ CreateSession("A", "hb", PortOf("B")))
  \/ EnvConnect("hx", "B")
  \/ \E c \in ConnIds : Accept("B", c)
  \/ \E c \in ConnIds : CsHandshake(c)
  \/ \E c \in ConnIds : InboundStep(c)
  \/ \E c \in ConnIds : \E f \in FirstFrames(c) : EnvWrite(c, f)
  \/ \E c \in ConnIds : EnvClose(c)

SpecKeys == Init /\ [][NextKeys]_vars

\* C13: the step that completes a handshake stores the peer's public key of
\* this connection and the private key of the pair whose public key this
\* side sent: the initiator stores the responder's public key and its own
\* private key, the responder the initiator's public key and its own private
\* key.
C13_KeysMatch ==
  [][\A c \in ConnIds :
       /\ CsSave(c) => /\ keys'[conn[c].ini][cs[c].idx] = KeyR(c)
                       /\ my_keys'[conn[c].ini][cs[c].idx] = KeyI(c)
       /\ HiSave(c) => /\ keys'[conn[c].tgt][hi[c].idx] = KeyI(c)
                       /\ my_keys'[conn[c].tgt][hi[c].idx] = KeyR(c)]_vars

\* A handshake between A and B completed on both sides, and each side holds
\* the other's public key and its own private key.
C13_Witness ==
  \E c \in ConnIds : \E i \in SlotsOf("A") : \E j \in SlotsOf("B") :
    /\ conn[c].ini = "A" /\ conn[c].tgt = "B"
    /\ cs[c].ret = "true" /\ hi[c].pc = "loop"
    /\ client_sockets["A"][i] = c /\ client_sockets["B"][j] = c
    /\ keys["A"][i] = KeyR(c) /\ my_keys["B"][j] = KeyR(c)
    /\ keys["B"][j] = KeyI(c) /\ my_keys["A"][i] = KeyI(c)


\* -------------------------------------------------------------------- send
\* The address of the peer of connection c, as node n records it.
PeerAddr(n, c) == IF conn[c].ini = n THEN conn[c].addr ELSE conn[c].src

\* Node A and the remote programs at hx and hb, which connect to A, send
\* their key and may close, while A's console sends messages to hx.
NextSend ==
  \/ \E x \in {"hx", "hb"} : EnvConnect(x, "A")
  \/ \E c \in ConnIds : Accept("A", c)
  \/ \E c \in ConnIds : InboundStep(c)
  \/ \E c \in ConnIds : \E f \in KeyFrame(c) : EnvWrite(c, f)
  \/ \E c \in ConnIds : EnvClose(c)
  \/ \E m \in Msgs : Send("A", "hx", m)
  \/ SdKey("A")
  \/ SdWrite("A")

SpecSend == Init /\ [][NextSend]_vars

\* C14: send(a, text) returns true only if a slot holds address a with a
\* peer public key and a socket handle and the write on that socket
\* succeeded: the connection written to is one with a.
C14_SendTrueOnlyToPeer ==
  \A n \in Node :
    (ev.op = "send" /\ ev.n = n /\ ev.r = "true") => PeerAddr(n, ev.c) = ev.a


\* ---------------------------------------------------------------- isolation
\* The five fields of slot i of node n.
SlotFields(n, i) ==
  <<clients_ip[n][i], socket_busy[n][i], client_sockets[n][i], keys[n][i], my_keys[n][i]>>
\* A step by which the thread of connection c gives its slot up: the release
\* by the inbound worker, the exit of the outbound worker, reload_socket.
ReleaseStep(c) ==
  \/ HiClose(c) \/ LsExitBusy(c) \/ LsExitIp(c) \/ CsReload1(c) \/ CsReload2(c)
\* Connection d of node n is live in its slot: its read worker is active and
\* the slot holds its socket.
LiveInSlot(n, d) ==
  /\ d \in LiveSessions(n)
  /\ client_sockets[n][SlotOf(n, d)] = d

\* C15: the failure or termination of one connection never modifies the
\* slot fields or the queue of a different live connection.
C15_Isolation ==
  [][\A n \in Node : \A c, d \in ConnIds :
       (c # d /\ (conn[c].ini = n \/ conn[c].tgt = n)
        /\ LiveInSlot(n, d) /\ ReleaseStep(c))
         => /\ SlotFields(n, SlotOf(n, d))' = SlotFields(n, SlotOf(n, d))
            /\ Queue(n, PeerAddr(n, d))' = Queue(n, PeerAddr(n, d))]_vars


\* A slot as P2P::new creates it.
FreshSlot == <<NoAddr, FALSE, None, None, None>>

\* C17: a read worker that leaves its read loop releases its slot in full:
\* when it returns, the socket is shut down, the slot is as P2P::new created
\* it, and the queue of its address is removed.
C17_FullRelease ==
  [][\A c \in ConnIds :
       /\ LsExitIp(c)
            => /\ conn'[c].iShut
               /\ SlotFields(conn[c].ini, cs[c].idx)' = FreshSlot
               /\ conn[c].addr \notin DOMAIN incoming_requests'[conn[c].ini]
       /\ (HiClose(c) /\ hi[c].k = LastCloseStep)
            => /\ conn'[c].rShut
               /\ SlotFields(conn[c].tgt, hi[c].idx)' = FreshSlot
               /\ conn[c].src \notin DOMAIN incoming_requests'[conn[c].tgt]]_vars


\* ------------------------------------------------------------ slot pool
\* Node A, whose console calls create_session, one call at a time, on hx and
\* on an address nobody listens at, while the remote program at hb connects.
NextPool ==
  \/ \E a \in {"hx", "ha"} : (ConsoleIdle("A") /\ CreateSession("A", a, PortOf("B")))
  \/ EnvConnect("hb", "A")
  \/ \E c \in ConnIds : Accept("A", c)
  \/ \E c \in ConnIds : OutboundStep(c)
  \/ \E c \in ConnIds : InboundStep(c)
  \/ \E c \in ConnIds : \E f \in FirstFrames(c) : EnvWrite(c, f)
  \/ \E c \in ConnIds : EnvClose(c)

SpecPool == Init /\ [][NextPool]_vars

\* The steps of an outbound attempt other than the one that stores the
\* completed session.
AttemptStep(c) ==
  \/ CsDebounce(c) \/ CsScan(c) \/ CsAllBusy(c) \/ CsConnect(c)
  \/ CsReload1(c) \/ CsReload2(c) \/ CsSendKey(c) \/ CsReadKey(c) \/ CsFinish(c)

\* C18: a failed outbound attempt never touches the slot pool: no step of
\* the attempt but the store of a completed handshake changes a slot field,
\* and a failed attempt returns false with its attempt entry removed.
C18_FailedAttemptLeavesPool ==
  [][\A c \in ConnIds :
       /\ AttemptStep(c) => UNCHANGED pool
       /\ (CsFinish(c) /\ cs[c].ret = "false")
            => /\ ev' = Event("create_session", conn[c].ini, conn[c].addr, c, "false")
               /\ conn[c].addr \notin DOMAIN connection_attempts'[conn[c].ini]]_vars


\* C19: an inbound handshake worker that aborts - at the debounce check, at
\* the key read or parse, at the key send, or because no slot is free -
\* leaves every slot field and the queue map unchanged, and a worker writes a
\* slot only when it holds the peer's parsed key and has sent its own.
C19_InboundAbortLeavesPool ==
  [][\A c \in ConnIds :
       /\ (HiDebounce(c) \/ HiReadKey(c) \/ HiSendKey(c))
            => UNCHANGED <<pool, incoming_requests>>
       /\ (HiClaim(c) /\ \A i \in SlotsOf(conn[c].tgt) : (clients_ip[conn[c].tgt][i] # NoAddr
                                           \/ socket_busy[conn[c].tgt][i]))
            => /\ UNCHANGED <<pool, incoming_requests>>
               /\ hi'[c].pc = "done"
       /\ ((HiClaim(c) \/ HiSave(c)) /\ pool' # pool)
            => hi[c].ckey = KeyI(c) /\ NodeKeySent(c)]_vars
\* A worker has just given up because no slot was free, and the slots are
\* held by others.
C19_Witness ==
  /\ ev.op = "handle_incoming" /\ ev.r = "no_free_slots"
  /\ hi[ev.c].pc = "done"
  /\ \A i \in SlotsOf(ev.n) : socket_busy[ev.n][i] /\ client_sockets[ev.n][i] # ev.c


\* Node A and the remote programs at hx and hb, which connect to A at the
\* same time, write their first bytes and may close.
NextClaim ==
  \/ \E x \in {"hx", "hb"} : EnvConnect(x, "A")
  \/ \E c \in ConnIds : Accept("A", c)
  \/ \E c \in ConnIds : InboundStep(c)
  \/ \E c \in ConnIds : \E f \in FirstFrames(c) : EnvWrite(c, f)
  \/ \E c \in ConnIds : EnvClose(c)

SpecClaim == Init /\ [][NextClaim]_vars

\* The inbound worker of connection c holds the slot it claimed: it has
\* written the address and the busy flag and has not yet cleared them.
HoldsClaim(c) ==
  \/ hi[c].pc \in {"save", "unattempt", "loop", "deliver"}
  \/ (hi[c].pc = "close" /\ hi[c].k <= 3)

\* C20: the slot claim is atomic among inbound workers: two concurrent
\* inbound workers never hold a claim on the same slot index.
C20_InboundClaimAtomic ==
  \A c1, c2 \in ConnIds :
    (c1 # c2 /\ conn[c1].tgt = conn[c2].tgt /\ HoldsClaim(c1) /\ HoldsClaim(c2))
      => hi[c1].idx # hi[c2].idx
\* Two inbound workers were concurrent, one holds the only free slot and the
\* other found none.
C20_Witness ==
  \E c1, c2 \in ConnIds :
    /\ c1 # c2 /\ conn[c1].tgt = conn[c2].tgt
    /\ HoldsClaim(c1) /\ hi[c1].pc = "save"
    /\ ev = Event("handle_incoming", conn[c2].tgt, conn[c2].src, c2, "no_free_slots")


\* ---------------------------------------------------------------- liveness
\* An outbound session with its read worker, from the call to the exit.
ThreadOut(c) == SessionOut(c) \/ LsDeliver(c)

\* The writes of a remote program that sends its key and then bytes that are
\* no ciphertext.
KeyThenJunk(c) ==
  IF EnvSent(c) = 0 THEN KeyFrame(c) ELSE IF EnvSent(c) = 1 THEN {Junk} ELSE {}

\* Node A, whose console connects to hx, and the remote program at hb, which
\* connects to A; the remote programs write their key, then other bytes,
\* and may close.
NextLive ==
  \/ (ConsoleIdle("A") /\ CreateSession("A", "hx", PortOf("B")))
  \/ (nconn < MsgConn /\ EnvConnect("hb", "A"))
  \/ \E c \in ConnIds : Accept("A", c)
  \/ \E c \in ConnIds : ThreadOut(c)
  \/ \E c \in ConnIds : WorkerIn(c)
  \/ \E c \in ConnIds : \E f \in KeyThenJunk(c) : EnvWrite(c, f)
  \/ \E c \in ConnIds : EnvClose(c)

\* Every thread that can take a step eventually takes one.
SpecLive ==
  /\ Init /\ [][NextLive]_vars
  /\ \A c \in ConnIds : WF_vars(WorkerIn(c)) /\ WF_vars(ThreadOut(c))

\* The read worker of connection c on node n has left its loop for good.
WorkerGone(c) == lw[c].pc = "done" \/ hi[c].pc = "done"
\* The read worker of c is leaving its loop: it read 0 bytes, or the read or
\* the decryption failed.
WorkerLeaving(c) ==
  \/ lw[c].pc = "exit_busy"
  \/ (hi[c].pc = "close" /\ hi[c].k = 1)
\* The slot index of connection c on node A is free: address empty, not busy.
SlotFree(c) ==
  /\ SlotOf("A", c) \in Slots
  /\ clients_ip["A"][SlotOf("A", c)] = NoAddr
  /\ ~socket_busy["A"][SlotOf("A", c)]

NextStop ==
  \/ /\ ks["A"].pc = "idle"
     /\ ConsoleIdle("A")
     /\ CreateSession("A", "hx", PortOf("B"))
  \/ (nconn < MsgConn /\ EnvConnect("hb", "A"))
  \/ \E c \in ConnIds : Accept("A", c)
  \/ AcceptStop("A")
  \/ \E c \in ConnIds : ThreadOut(c)
  \/ \E c \in ConnIds : WorkerIn(c)
  \/ \E c \in ConnIds : \E f \in KeyThenJunk(c) : EnvWrite(c, f)
  \/ /\ ConsoleIdle("A")
     /\ KillServer("A")
  \/ KillStep("A")

\* Every thread that can take a step eventually takes one.
SpecStop ==
  /\ Init /\ [][NextStop]_vars
  /\ WF_vars(AcceptStop("A"))
  /\ \A c \in ConnIds : WF_vars(WorkerIn(c)) /\ WF_vars(ThreadOut(c))

\* The read worker of connection c is in its read loop.
InReadLoop(c) == lw[c].pc \in {"loop", "deliver"} \/ hi[c].pc \in {"loop", "deliver"}

\* C22: once the running flag is false it stays false, the accept loop
\* eventually ends, and every read worker - also one whose handshake
\* completed after the flag was cleared - eventually exits with its slot
\* index free.
C22_Shutdown ==
  /\ [][~running["A"] => ~running'["A"]]_vars
  /\ ~running["A"] ~> (acc["A"] = "stopped")
  /\ \A c \in ConnIds :
       /\ (~running["A"] /\ InReadLoop(c)) ~> WorkerGone(c)
       /\ (~running["A"] /\ InReadLoop(c)) ~> SlotFree(c)
\* The flag is false, the accept thread has ended, and a worker whose
\* handshake was still under way when kill_server returned has exited.
C22_Witness ==
  /\ ~running["A"] /\ acc["A"] = "stopped" /\ ks["A"].pc = "done"
  /\ \E c \in ConnIds : c \notin ks["A"].live /\ hi[c].pc = "done" /\ SlotFree(c)


\* ------------------------------------------------------------ accept loop
\* Node A's accept thread among remote programs: first one at a blacklisted
\* address connects, then those at an ordinary address; they write a key
\* or other bytes and may close; the console calls kill_server at the end.
NextAccept ==
  \/ (nconn = 0 /\ EnvConnect("bl", "A"))
  \/ (nconn > 0 /\ EnvConnect("hb", "A"))
  \/ \E c \in ConnIds : Accept("A", c)
  \/ \E r \in {"would_block", "error"} : AcceptPoll("A", r)
  \/ AcceptStop("A")
  \/ \E c \in ConnIds : InboundStep(c)
  \/ \E c \in ConnIds : \E f \in FirstFrames(c) : EnvWrite(c, f)
  \/ \E c \in ConnIds : EnvClose(c)
  \/ /\ ConsoleIdle("A")
     /\ KillServer("A")
  \/ KillStep("A")

SpecAccept == Init /\ [][NextAccept]_vars

\* The handshake worker of connection c gave up before it claimed a slot.
HandshakeFailed(c) == hi[c].pc = "done" /\ hi[c].idx = 0

\* C23: the accept thread ends only when the running flag is false; while
\* the flag is true the thread is in its loop, whatever accept returned and
\* whatever became of the workers it spawned, and it accepts every pending
\* connection.
C23_AcceptLoop ==
  /\ [](running["A"] => acc["A"] = "loop")
  /\ [](running["A"] => \A c \in ConnIds : Pending("A", c) => ENABLED Accept("A", c))
  /\ [][acc'["A"] # acc["A"] => ~running["A"] /\ acc'["A"] = "stopped"]_vars
\* The loop polls with the flag set after it has refused a blacklisted peer
\* and a handshake worker has failed.
C23_Witness ==
  /\ running["A"] /\ acc["A"] = "loop"
  /\ ev.op = "accept" /\ ev.r \in {"would_block", "error"}
  /\ \E c \in ConnIds : conn[c].src \in blacklist /\ conn[c].accepted
  /\ \E c \in ConnIds : HandshakeFailed(c)


\* --------------------------------------------------------- handshake order
\* Nodes A and B as seconds pass: A's console connects to B, B's accept
\* thread hands the connection to a worker.
NextShake ==
  \/ (ConsoleIdle("A") /\ CreateSession("A", "hb", PortOf("B")))
  \/ \E c \in ConnIds : Accept("B", c)
  \/ \E c \in ConnIds : CsHandshake(c)
  \/ \E c \in ConnIds : InboundStep(c)
  \/ Tick

\* The threads keep being scheduled and time passes.
SpecShake ==
  /\ Init /\ [][NextShake]_vars
  /\ WF_vars(Tick)
  /\ \A c \in ConnIds : /\ WF_vars(Accept("B", c))
                        /\ WF_vars(CsHandshake(c))
                        /\ WF_vars(InboundStep(c))

\* The initiator of connection c is between connect and its outcome.
CsInHandshake(c) == cs[c].pc \in {"sendkey", "readkey", "save"}
\* The responder of connection c is between accept and its outcome.
HiInHandshake(c) == hi[c].pc \in {"debounce", "readkey", "sendkey", "claim", "save", "unattempt"}

\* C24: the responder writes its key only after it has parsed the key the
\* initiator sent, the initiator reads only after it has written its own
\* key (which reached the responder unless that had closed already), a
\* side that has waited KEY_TIMEOUT_SECS for the key can take its next step,
\* and each side of a handshake eventually completes it or gives up.
C24_HandshakeOrder ==
  /\ [][\A c \in ConnIds :
          HiSendKey(c) => /\ conn[c].sentI >= 1
                          /\ hi[c].ckey = KeyI(c)]_vars
  /\ [][\A c \in ConnIds :
          CsReadKey(c) => \/ conn[c].sentI >= 1
                          \/ ~PeerOpen(c, "I")]_vars
  /\ [](\A c \in ConnIds :
          /\ (cs[c].pc = "readkey" /\ cs[c].w >= KEY_TIMEOUT_SECS) => ENABLED CsReadKey(c)
          /\ (hi[c].pc = "readkey" /\ hi[c].w >= KEY_TIMEOUT_SECS) => ENABLED HiReadKey(c))
  /\ \A c \in ConnIds :
       /\ CsInHandshake(c) ~> (cs[c].pc \in {"finish", "done"})
       /\ HiInHandshake(c) ~> (hi[c].pc \in {"loop", "done"})
\* Both sides of one connection have completed the handshake.
C24_Witness ==
  \E c \in ConnIds :
    /\ conn[c].sentI = 1 /\ conn[c].sentR = 1
    /\ cs[c].pc = "done" /\ cs[c].ret = "true"
    /\ hi[c].pc = "loop"


\* ------------------------------------------------------------ stale queues
\* Node A and the remote program at hx: A's console connects to hx, which
\* sends its key and its messages and may close; the console closes the
\* connection or not, and A's monitor polls get_request.
NextStale ==
  \/ /\ ConsoleIdle("A") /\ cc["A"].pc = "idle"
     /\ CreateSession("A", "hx", PortOf("B"))
  \/ \E c \in ConnIds : ThreadOut(c)
  \/ \E c \in ConnIds : \E f \in Wire(c) : EnvWrite(c, f)
  \/ \E c \in ConnIds : EnvClose(c)
  \/ /\ ConsoleIdle("A")
     /\ CloseConnection("A", "hx")
  \/ CcStep("A")
  \/ GetRequest("A", "hx")

SpecStale == Init /\ [][NextStale]_vars

\* A thread of node n serves a connection with the peer at address a: a
\* handshake or a read worker that has not ended.
WorkerFor(n, a) ==
  \E c \in ConnIds :
    \/ /\ conn[c].ini = n /\ conn[c].addr = a
       /\ (cs[c].pc \notin {"none", "done"} \/ lw[c].pc \notin {"none", "done"})
    \/ /\ conn[c].tgt = n /\ conn[c].src = a
       /\ hi[c].pc \notin {"none", "done"}
\* Neither close_connection nor kill_server is under way on node n.
NoTeardownCall(n) == cc[n].pc = "idle" /\ ks[n].pc \in {"idle", "done"}

\* C25: when no slot holds address a, no thread serves a connection with a
\* and no teardown call is under way, the queue map has no entry for a.
C25_NoStaleQueue ==
  \A n \in Node : \A a \in Addr :
    (~check_address(n, a) /\ ~WorkerFor(n, a) /\ NoTeardownCall(n))
      => a \notin DOMAIN incoming_requests[n]


\* ------------------------------------------------------- repeated teardown
\* Node A and the remote program at hx, which connects, sends its key and
\* may close; A's console calls close_connection for hx and for an address
\* that never connected, and kill_server at the end.
NextTwice ==
  \/ (nconn < MsgConn /\ EnvConnect("hx", "A"))
  \/ \E c \in ConnIds : Accept("A", c)
  \/ \E c \in ConnIds : InboundStep(c)
  \/ \E c \in ConnIds : \E f \in KeyFrame(c) : EnvWrite(c, f)
  \/ \E c \in ConnIds : EnvClose(c)
  \/ /\ ConsoleIdle("A") /\ ks["A"].pc = "idle"
     /\ \E a \in {"hx", "hb"} : CloseConnection("A", a)
  \/ CcStep("A")
  \/ /\ ConsoleIdle("A") /\ cc["A"].pc = "idle"
     /\ KillServer("A")
  \/ KillStep("A")

SpecTwice == Init /\ [][NextTwice]_vars

\* Slot i of node n and the queue of address a are as a completed release
\* of (a, i) leaves them.
Released(n, i, a) ==
  /\ i \in SlotsOf(n)
  /\ SlotFields(n, i) = FreshSlot
  /\ a \notin DOMAIN incoming_requests[n]

\* C26: a step of close_connection_internal for (a, i), taken by the read
\* worker, by close_connection or by kill_server when a release of (a, i)
\* has been completed and nothing has been written into the slot since,
\* changes nothing; and close_connection(a) for an address no slot holds
\* changes no slot field, no queue and no connection.
C26_TeardownIdempotent ==
  /\ [][\A c \in ConnIds :
          (HiClose(c) /\ Released(conn[c].tgt, hi[c].idx, conn[c].src))
            => UNCHANGED <<node_vars, conn>>]_vars
  /\ [][(CcStep("A") /\ Released("A", cc["A"].idx, cc["A"].a))
            => UNCHANGED <<node_vars, conn>>]_vars
  /\ [][(KsClose("A") /\ Released("A", ks["A"].idx, ks["A"].a))
            => UNCHANGED <<node_vars, conn>>]_vars
  /\ [][\A a \in Addr :
          (CloseConnection("A", a) /\ ~check_address("A", a))
            => /\ UNCHANGED <<node_vars, conn, cc>>
               /\ ev'.r = "not_connected"]_vars
\* kill_server released the slot of a connection and returned, and the read
\* worker of that connection has run its own release of the same slot.
C26_Witness ==
  \E c \in ConnIds :
    /\ ks["A"].pc = "done" /\ c \in ks["A"].live
    /\ hi[c].pc = "done" /\ hi[c].idx \in Slots
    /\ Released("A", hi[c].idx, conn[c].src)


\* ------------------------------------------------------- release in steps
\* The bytes of the remote program: its key on every connection, and one
\* message on its first.
KeyAndFirstMessage(c) ==
  {f \in Wire(c) : EnvSent(c) = 0 \/ (EnvSent(c) = 1 /\ c = 1)}

\* Node A and the remote program at hx, which connects, sends its key and a
\* message, closes and connects again, while A's console calls
\* close_connection(hx).
NextTorn ==
  \/ EnvConnect("hx", "A")
  \/ \E c \in ConnIds : Accept("A", c)
  \/ \E c \in ConnIds : WorkerIn(c)
  \/ \E c \in ConnIds : \E f \in KeyAndFirstMessage(c) : EnvWrite(c, f)
  \/ EnvClose(1)
  \/ /\ ConsoleIdle("A")
     /\ CloseConnection("A", "hx")
  \/ CcStep("A")

SpecTorn == Init /\ [][NextTorn]_vars

\* close_connection of node A is between two steps of its release.
InRelease == cc["A"].pc = "close" /\ cc["A"].k > 1
\* The fields of the slot being released.
RelAddr == IF InRelease THEN clients_ip["A"][cc["A"].idx] ELSE NoAddr
RelBusy == IF InRelease THEN socket_busy["A"][cc["A"].idx] ELSE FALSE
\* How many of the six things a release clears differ between this state
\* and the next.
Changed(b) == IF b THEN 1 ELSE 0
FieldsWritten ==
  Changed(client_sockets' # client_sockets) + Changed(clients_ip' # clients_ip)
    + Changed(socket_busy' # socket_busy) + Changed(keys' # keys)
    + Changed(my_keys' # my_keys) + Changed(incoming_requests' # incoming_requests)

Expired(n, a) ==
  a \in DOMAIN connection_attempts[n] /\ connection_attempts[n][a] >= DEBOUNCE_SECS

\* C28: an attempt that the debounce check rejects leaves the attempt table
\* as it is - the entry of the earlier attempt stays, with its time - and an
\* attempt that arrives when the recorded one is DEBOUNCE_SECS old is
\* admitted, however many were rejected before.
C28_RejectKeepsTable ==
  [][\A c \in ConnIds :
       /\ (HiDebounce(c) /\ hi'[c].pc = "done")
            => /\ connection_attempts' = connection_attempts
               /\ conn[c].src \in DOMAIN connection_attempts[conn[c].tgt]
       /\ (CsDebounce(c) /\ cs'[c].pc = "done")
            => /\ connection_attempts' = connection_attempts
               /\ conn[c].addr \in DOMAIN connection_attempts[conn[c].ini]
       /\ (HiDebounce(c) /\ Expired(conn[c].tgt, conn[c].src)) => hi'[c].pc = "readkey"
       /\ (CsDebounce(c) /\ Expired(conn[c].ini, conn[c].addr)) => cs'[c].pc = "scan"]_vars
\* An inbound attempt has just been rejected while the entry of an attempt
\* under way, some seconds old, is still in the table.
C28_Witness ==
  /\ ev.op = "handle_incoming" /\ ev.r = "duplicate"
  /\ ev.a \in DOMAIN connection_attempts[ev.n]
  /\ connection_attempts[ev.n][ev.a] \in 1..(DEBOUNCE_SECS - 1)
  /\ InFlight(ev.n, ev.a)


\* ------------------------------------------------- send during a teardown
\* The public key of the peer of connection c, as node n learns it in the
\* handshake.
PeerKey(n, c) == IF conn[c].ini = n THEN KeyR(c) ELSE KeyI(c)

\* C29: whenever send(a, m) writes, it writes on the socket of a session
\* with a, and the ciphertext is made with the public key of the peer of
\* that same session.
C29_SendBenign ==
  [][\A n \in Node :
       (SdWrite(n) /\ ev'.r = "true")
         => /\ PeerAddr(n, ev'.c) = sd[n].a
            /\ sd[n].key = PeerKey(n, ev'.c)]_vars


\* ------------------------------------------------------- unique addresses
\* Node B, which has two slots, and the remote program at hx, which connects
\* to B, sends its key and may close, and connects again, while B's console
\* connects to hx.
NextUnique ==
  \/ EnvConnect("hx", "B")
  \/ \E c \in ConnIds : Accept("B", c)
  \/ \E c \in ConnIds : InboundStep(c)
  \/ (ConsoleIdle("B") /\ CreateSession("B", "hx", PortOf("A")))
  \/ \E c \in ConnIds : SessionOut(c)
  \/ \E c \in ConnIds : \E f \in KeyFrame(c) : EnvWrite(c, f)
  \/ \E c \in ConnIds : EnvClose(c)

SpecUnique == Init /\ [][NextUnique]_vars

\* C30: no two slots of a node hold the same non-empty address.
C30_UniqueAddresses ==
  \A n \in Node : \A i, j \in SlotsOf(n) :
    (i # j /\ clients_ip[n][i] # NoAddr) => clients_ip[n][i] # clients_ip[n][j]

\* ------------------------------------------------------- session agreement
\* Node A, whose only slot a remote program at hx may take, and node B, whose
\* console connects to A; the remote program sends its key and may close.
NextAgree ==
  \/ (nconn = 0 /\ EnvConnect("hx", "A"))
  \/ (ConsoleIdle("B") /\ CreateSession("B", "ha", PortOf("A")))
  \/ \E c \in ConnIds : Accept("A", c)
  \/ \E c \in ConnIds : InboundStep(c)
  \/ \E c \in ConnIds : SessionOut(c)
  \/ \E c \in ConnIds : \E f \in KeyFrame(c) : EnvWrite(c, f)
  \/ \E c \in ConnIds : EnvClose(c)

SpecAgree == Init /\ [][NextAgree]_vars

\* The responder of connection c wrote its public key and then dropped the
\* connection without a slot.
DroppedAfterKey(c) ==
  /\ conn[c].tgt \in Node /\ conn[c].sentR >= 1
  /\ hi[c].pc = "done" /\ hi[c].idx = 0

\* C31: when the initiator's create_session has returned true on a completed
\* handshake, the responder has claimed a slot for that connection or is about
\* to: the responder never sends its public key for a connection it then
\* drops for lack of a free slot.
C31_SessionAgreement ==
  \A c \in ConnIds :
    (conn[c].ini \in Node /\ cs[c].pc = "done" /\ cs[c].ret = "true")
      => ~DroppedAfterKey(c)

\* ------------------------------------------------------ message boundaries
\* The number of the next message A's console sends to hb: one more than the
\* ciphertexts written on the session's connection.
NextMessage(n, a) ==
  LET i == get_ind_by_address(n, a)
  IN IF i = None THEN 1
     ELSE IF client_sockets[n][i] = None THEN 1
     ELSE conn[client_sockets[n][i]].sentI

\* Nodes A and B: A's console connects to B once and sends it the messages
\* 1, 2, ... one after the other; B's monitor polls get_request.
NextFrame ==
  \/ (nconn = 0 /\ CreateSession("A", "hb", PortOf("B")))
  \/ \E c \in ConnIds : Accept("B", c)
  \/ \E c \in ConnIds : SessionOut(c)
  \/ \E c \in ConnIds : WorkerIn(c)
  \/ (ConsoleIdle("A") /\ NextMessage("A", "hb") \in Msgs
                       /\ Send("A", "hb", NextMessage("A", "hb")))
  \/ SdKey("A")
  \/ SdWrite("A")
  \/ GetRequest("B", "ha")

\* Every worker thread that can take a step eventually takes one.
SpecFrame ==
  /\ Init /\ [][NextFrame]_vars
  /\ \A c \in ConnIds : WF_vars(WorkerIn(c))

\* The second of two sends on connection c has just returned true, and both
\* ciphertexts reached B's end of the connection.
TwoSent(c) ==
  /\ ev = MsgEvent("send", "A", "hb", c, 2, "true")
  /\ conn[c].sentI = 3
\* B's worker of connection c has queued the plaintexts 1 and 2, in this order.
BothQueued(c) == Len(rx[c]) >= 2 /\ SubSeq(rx[c], 1, 2) = <<1, 2>>

\* C32: after two successful sends, one after the other, on a live session
\* both plaintexts eventually are in the receiver's queue in send order and
\* the connection stays up, however the receiver's reads cut the byte stream.
C32_MessageBoundaries ==
  \A c \in ConnIds : TwoSent(c) ~> (BothQueued(c) /\ ~DownAtB(c))

\* --------------------------------------------------------- lock discipline
\* The Mutex objects of a P2P instance (its fields), and the Mutex around the
\* TcpStream stored in slot i.
M(name) == <<name, 0>>
sock(i) == <<"sock", i>>

\* The blocks that hold more than one guard, as the sequence in which they lock.
\* A slot claim that locks the busy flags before the addresses.
claim_locks_busy_first == <<M("socket_busy"), M("clients_ip")>>
\* Lines 611-612: the slot claim of handle_incoming.
claim_locks == <<M("clients_ip"), M("socket_busy")>>
\* Lines 637-643: handle_incoming stores socket and keys.
save_locks == <<M("client_sockets"), M("keys"), M("my_keys")>>
\* Lines 661 and 911: the loop condition of both read loops; the guard of
\* running is a temporary of the condition and lives to its end.
loop_locks == <<M("running"), M("socket_busy")>>
\* Lines 665-669 and 915-919: decrypt under my_keys, then push under the queues.
deliver_locks == <<M("my_keys"), M("incoming_requests")>>
\* Lines 843-855: connect_to_server writes the slot.
connect_locks ==
  <<M("clients_ip"), M("socket_busy"), M("client_sockets"), M("keys"), M("my_keys")>>
\* Lines 999-1001: close_connection_internal shuts the socket of slot i down.
shutdown_locks(i) == <<M("client_sockets"), sock(i)>>

\* Lines 997-1032: the six blocks of close_connection_internal on slot i.
close_connection_internal_locks(i) ==
  {shutdown_locks(i), <<M("client_sockets")>>, <<M("clients_ip")>>, <<M("socket_busy")>>,
   <<M("keys")>>, <<M("my_keys")>>, <<M("incoming_requests")>>}
\* Lines 477 and 520: accept_connections.
accept_connections_locks == {<<M("running")>>}
\* Lines 548-706: handle_incoming with slot i.
handle_incoming_locks(i) ==
  {<<M("connection_attempts")>>, claim_locks, save_locks, <<M("running")>>, loop_locks,
   <<M("my_keys")>>, deliver_locks} \cup close_connection_internal_locks(i)
\* Lines 740-786, 843-855 and 958-966: create_session, connect_to_server
\* and reload_socket.
create_session_locks ==
  {<<M("clients_ip")>>, <<M("connection_attempts")>>, <<M("socket_busy")>>,
   connect_locks, <<M("client_sockets")>>}
\* Lines 911-953: listen_to_server.
listen_to_server_locks ==
  {<<M("running")>>, loop_locks, <<M("my_keys")>>, deliver_locks,
   <<M("socket_busy")>>, <<M("clients_ip")>>}
\* Lines 1037-1118: send and raw_send on slot i; the socket is written under
\* its own Mutex, after the guard of client_sockets was dropped.
send_locks(i) ==
  {<<M("clients_ip")>>, <<M("keys")>>, <<M("client_sockets")>>, <<sock(i)>>}
\* Lines 969-984: close_connection on slot i.
close_connection_locks(i) ==
  {<<M("clients_ip")>>} \cup close_connection_internal_locks(i)
\* Lines 1153-1174: kill_server.
kill_server_locks(i) == {<<M("running")>>} \cup close_connection_locks(i)
\* Lines 1130-1151 and 1184-1195: check_request, get_request, check_address,
\* get_connected_clients, connected_clients_count.
monitor_locks == {<<M("incoming_requests")>>, <<M("clients_ip")>>}

\* The blocks thread t of node n can enter.
Sections(n, t) ==
  IF t[1] = "accept" THEN accept_connections_locks
  ELSE IF t[1] = "hi" THEN UNION {handle_incoming_locks(i) : i \in SlotsOf(n)}
  ELSE IF t[1] = "cs" THEN create_session_locks
  ELSE IF t[1] = "lw" THEN listen_to_server_locks
  ELSE IF t[1] = "sd" THEN UNION {send_locks(i) : i \in SlotsOf(n)}
  ELSE IF t[1] = "cc" THEN UNION {close_connection_locks(i) : i \in SlotsOf(n)}
  ELSE IF t[1] = "ks" THEN UNION {kill_server_locks(i) : i \in SlotsOf(n)}
  ELSE monitor_locks

\* The mutexes thread t of node n has locked.
Held(n, t) == {mutex[n][t].sec[j] : j \in 1..mutex[n][t].k}
\* The thread that holds mutex l of node n.
Holder(n, l) ==
  IF \E t \in Thread : l \in Held(n, t) THEN CHOOSE t \in Thread : l \in Held(n, t)
  ELSE NoThread
\* Thread t is inside a block and has not locked all of its mutexes.
Inside(n, t) == mutex[n][t].k >= 1 /\ mutex[n][t].k < Len(mutex[n][t].sec)
\* The mutex thread t locks next.
Wanted(n, t) == mutex[n][t].sec[mutex[n][t].k + 1]

\* Mutex::lock at the start of a block: thread t enters block s and takes its
\* first mutex.  (A thread that waits for its first mutex holds none.)
Enter(n, t, s) ==
  /\ mutex[n][t] = NoSection
  /\ s \in Sections(n, t)
  /\ Holder(n, s[1]) = NoThread
  /\ mutex' = [mutex EXCEPT ![n][t] = [sec |-> s, k |-> 1]]
  /\ UNCHANGED <<node_vars, nconn, conn, cs, lw, hi, cc, sd, ks, acc, hist, ev>>

\* Mutex::lock inside a block: it returns when nobody holds the mutex.
LockNext(n, t) ==
  /\ Inside(n, t)
  /\ Holder(n, Wanted(n, t)) = NoThread
  /\ mutex' = [mutex EXCEPT ![n][t].k = @ + 1]
  /\ UNCHANGED <<node_vars, nconn, conn, cs, lw, hi, cc, sd, ks, acc, hist, ev>>

\* The end of a block drops its guards.
Leave(n, t) ==
  /\ mutex[n][t].k >= 1 /\ mutex[n][t].k = Len(mutex[n][t].sec)
  /\ mutex' = [mutex EXCEPT ![n][t] = NoSection]
  /\ UNCHANGED <<node_vars, nconn, conn, cs, lw, hi, cc, sd, ks, acc, hist, ev>>

\* The threads of node A, each entering the blocks of its function in any
\* order and any number of times.
NextLocks ==
  \/ \E t \in Thread : \E s \in Sections("A", t) : Enter("A", t, s)
  \/ \E t \in Thread : LockNext("A", t)
  \/ \E t \in Thread : Leave("A", t)

SpecLocks == Init /\ [][NextLocks]_vars

\* An order of the mutexes.
Rank(l) ==
  IF l[1] = "running" THEN 1 ELSE IF l[1] = "connection_attempts" THEN 2
  ELSE IF l[1] = "clients_ip" THEN 3 ELSE IF l[1] = "socket_busy" THEN 4
  ELSE IF l[1] = "client_sockets" THEN 5 ELSE IF l[1] = "sock" THEN 6
  ELSE IF l[1] = "keys" THEN 7 ELSE IF l[1] = "my_keys" THEN 8 ELSE 9
\* Thread t waits for a mutex that a thread holds.
Waiting(n, t) == Inside(n, t) /\ Holder(n, Wanted(n, t)) # NoThread
\* Every thread of the set ts waits for a mutex held by a thread of ts.
Deadlocked(n, ts) ==
  ts # {} /\ \A t \in ts : Waiting(n, t) /\ Holder(n, Wanted(n, t)) \in ts

\* C33: the threads of a node lock its mutexes in one order, every mutex a
\* thread locks ranking above those it holds, and in no reachable state is
\* there a set of threads each waiting for a mutex held by another of the set.
C33_NoDeadlock ==
  \A n \in Node :
    /\ \A t \in Thread : \A l \in Held(n, t) :
         Inside(n, t) => Rank(l) < Rank(Wanted(n, t))
    /\ \A ts \in SUBSET {t \in Thread : Waiting(n, t)} : ~Deadlocked(n, ts)
\* A read worker that holds running waits for the busy flags, which a
\* create_session caller holds inside its five-lock block while it waits for
\* the socket handles, which close_connection holds while it waits for the
\* socket that send is writing to.
C33_Witness ==
  /\ Waiting("A", <<"lw", 1>>) /\ Holder("A", Wanted("A", <<"lw", 1>>)) = <<"cs", 1>>
  /\ Waiting("A", <<"cs", 1>>) /\ Holder("A", Wanted("A", <<"cs", 1>>)) = <<"cc", 0>>
  /\ Waiting("A", <<"cc", 0>>) /\ Holder("A", Wanted("A", <<"cc", 0>>)) = <<"sd", 0>>

\* ------------------------------------------------------- the empty address
\* Node A, whose console calls create_session, send and close_connection
\* with the address of the remote program at hx and with the empty string;
\* the remote program sends its key and may close.
NextEmpty ==
  \/ \E a \in {"hx", NoAddr} : (ConsoleIdle("A") /\ CreateSession("A", a, PortOf("B")))
  \/ \E c \in ConnIds : OutboundStep(c)
  \/ \E c \in ConnIds : \E f \in KeyFrame(c) : EnvWrite(c, f)
  \/ \E c \in ConnIds : EnvClose(c)
  \/ (ConsoleIdle("A") /\ \E m \in Msgs : Send("A", NoAddr, m))
  \/ SdKey("A")
  \/ SdWrite("A")
  \/ CloseConnection("A", NoAddr)
  \/ CcStep("A")

SpecEmpty == Init /\ [][NextEmpty]_vars

\* A handshake of node n with a peer addressed as a has completed.
HandshakeDone(n, a) ==
  \E c \in ConnIds :
    \/ conn[c].ini = n /\ conn[c].addr = a /\ cs[c].ret = "true"
    \/ conn[c].tgt = n /\ conn[c].src = a /\ hi[c].idx # 0

\* C34: create_session(a) returns true only if a handshake with a peer
\* addressed as a has completed, in this call or in an earlier one, whatever
\* the string a is, the empty one included; and send and close_connection
\* called with the empty string never pick a slot.
C34_TrueOnlyAfterHandshake ==
  \A n \in Node :
    /\ (ev.op = "create_session" /\ ev.n = n /\ ev.r \in {"true", "true_already"})
         => HandshakeDone(n, ev.a)
    /\ ~(sd[n].pc # "idle" /\ sd[n].a = NoAddr)
    /\ ~(cc[n].pc = "close" /\ cc[n].a = NoAddr)

\* ----------------------------------------------------------- mutual connect
\* Node n has not called create_session yet, or the call found the session.
NotCalled(n) == \A c \in ConnIds : conn[c].ini # n

\* Nodes A and B, neither blacklisted by the other: each console calls
\* create_session toward the other node, at any time.
NextMutual ==
  \/ (NotCalled("A") /\ CreateSession("A", "hb", PortOf("B")))
  \/ (NotCalled("B") /\ CreateSession("B", "ha", PortOf("A")))
  \/ \E n \in Node : \E c \in ConnIds : Accept(n, c)
  \/ \E c \in ConnIds : SessionOut(c)
  \/ \E c \in ConnIds : HandshakeIn(c)

SpecMutual == Init /\ [][NextMutual]_vars

\* Node n has an outbound attempt to address a under way.
AttemptInFlight(n, a) ==
  \E c \in ConnIds : conn[c].ini = n /\ conn[c].addr = a /\ cs[c].pc \notin {"none", "done"}
\* Both nodes have called create_session toward the other, and both calls
\* have returned.
BothReturned ==
  \E c1, c2 \in ConnIds :
    /\ conn[c1].ini = "A" /\ conn[c1].addr = "hb" /\ cs[c1].pc = "done"
    /\ conn[c2].ini = "B" /\ conn[c2].addr = "ha" /\ cs[c2].pc = "done"
\* A session between the two nodes was set up by one of the calls.
Established == \E c \in ConnIds : conn[c].ini \in Node /\ cs[c].ret = "true"

\* C35: when two nodes call create_session toward each other at least one
\* session between them is established, and an inbound connection from X is
\* never rejected by the attempt table because of the node's own outbound
\* attempt to X.
C35_MutualConnect ==
  /\ BothReturned => Established
  /\ \A n \in Node :
       (ev.op = "handle_incoming" /\ ev.n = n /\ ev.r = "duplicate")
         => ~AttemptInFlight(n, ev.a)

====
